---- MODULE Spec2Model ----
(***************************************************************************)
(* The transaction / two-phase-commit state machine of a psycopg2ct        *)
(* connection (psycopg2ct/_impl/connection.py), the result and fetch state *)
(* of its cursors (psycopg2ct/_impl/cursor.py), and poll() on a            *)
(* non-blocking connection.                                                *)
(*                                                                         *)
(* Every public method is one action.  A method body is a chain of         *)
(* exception-transparent steps over a call frame r:                        *)
(*    r.c      the Connection object's fields (and the one server GUC the  *)
(*             code reads back, default_transaction_isolation)             *)
(*    r.cur    the Cursor object's fields                                  *)
(*    r.exc    "none" or the name of the exception that is propagating     *)
(*    r.sent   the commands handed to libpq.PQexec by this call, in order  *)
(*    r.failed TRUE iff the last command of r.sent was rejected            *)
(*    r.marks  how often the call has incremented Connection._mark         *)
(*    r.finished  TRUE iff the call has handed the handle to libpq.PQfinish *)
(*    r.res    the result the server gives the statement of an execute     *)
(*    r.ret    the rows a fetch returns or an iteration has yielded        *)
(*    r.stop   TRUE iff an iteration has ended with StopIteration          *)
(*    r.pq     the libpq handle, in calls on a non-blocking connection     *)
(*    r.net    how many PQflush / PQisBusy calls a query sent by the call  *)
(*             will need, in calls on a non-blocking connection            *)
(* The server is an external collaborator: whether a command handed to     *)
(* PQexec succeeds is an input of the call (fa, kind): command number fa   *)
(* of the call fails with SQLSTATE class kind; fa = 0 means none fails.    *)
(* Connection._mark itself is an unbounded counter that no condition of    *)
(* the connection reads; the model keeps its increments per call.          *)
(*                                                                         *)
(* Variables: conn and cur are the Connection and the Cursor the           *)
(* application holds; last is the record of the last call; ghost and env   *)
(* are history kept for the properties; pq is the state of the libpq       *)
(* handle of a non-blocking connection.                                    *)
(***************************************************************************)
EXTENDS Integers, Sequences, FiniteSets, TLC

VARIABLES conn, cur, last, ghost, env, pq

vars == <<conn, cur, last, ghost, env, pq>>

(***************************************************************************)
(* Constants of psycopg2ct/_impl/consts.py                                 *)
(***************************************************************************)
ISOLATION_LEVEL_AUTOCOMMIT == 0
ISOLATION_LEVEL_READ_UNCOMMITTED == 1
ISOLATION_LEVEL_READ_COMMITTED == 2
ISOLATION_LEVEL_REPEATABLE_READ == 3
ISOLATION_LEVEL_SERIALIZABLE == 4

STATUS_SETUP == 0
STATUS_READY == 1
STATUS_BEGIN == 2
STATUS_PREPARED == 5

POLL_OK == 0
POLL_READ == 1
POLL_WRITE == 2
POLL_ERROR == 3

\* Names connection.py reads from consts that consts.py does not define: the
\* two connection states of a non-blocking connection attempt and the states
\* of a query on its way.
STATUS_CONNECTING == 20
STATUS_DATESTYLE == 21
ASYNC_DONE == 0
ASYNC_READ == 1
ASYNC_WRITE == 2

\* Connection._process_notice: the number of notices kept
NoticesKept == 50

\* Cursor.__init__: self.arraysize = 1, self.itersize = 2000
DefaultArraysize == 1
DefaultItersize == 2000

(***************************************************************************)
(* Bounds of the model                                                     *)
(***************************************************************************)
\* The largest number of elements of the paramlist of an executemany.
MaxParams == 2

\* The largest number of columns of a described result.
MaxCols == 2

\* The largest number of pieces of a query template.
MaxTokens == 3

\* The largest number of elements of an array or of one of its sub-arrays.
MaxChunks == 2
MaxElems == 2

\* The longest gtrid or bqual drawn from all strings over XidChars, and the
\* longest token drawn from all strings over TokenChars.
MaxXidChars == 2
MaxTokenChars == 6

\* The largest number of rows a query returns.
MaxRows == 3

\* The largest number of notices a connection receives.
MaxNotices == 52

\* How many distinct global transaction ids the application uses.
NumGtrids == 2

(***************************************************************************)
(* Values                                                                  *)
(***************************************************************************)
\* Python's None and a present value, for optional fields and arguments.
None == <<>>
Some(x) == <<x>>

Gtrids == 1 .. NumGtrids

\* A string of the transaction id module is the sequence of the ASCII codes
\* of its characters.  The characters the token format singles out:
Underscore == 95
Pad == 61
Newline == 10

\* The largest format id and the longest gtrid or bqual Xid.__init__
\* accepts.
MaxFormatId == 2147483647
MaxXidStr == 64

\* How many bytes base64.encodestring puts on one line of its output.
MAXBINSIZE == 57

\* The checks of Xid.__init__: whether it returns without ValueError.
XidValid(format_id, gtrid, bqual) ==
    /\ 0 <= format_id /\ format_id <= MaxFormatId
    /\ Len(gtrid) <= MaxXidStr
    /\ \A i \in 1 .. Len(gtrid) : 32 <= gtrid[i] /\ gtrid[i] <= 127
    /\ Len(bqual) <= MaxXidStr
    /\ \A i \in 1 .. Len(bqual) : 32 <= bqual[i] /\ bqual[i] <= 127

\* Xid.__init__: the three components of a transaction id.  A component
\* that is present is Some(value), as from_string sets two of them to None.
Xid(format_id, gtrid, bqual) ==
    [format_id |-> Some(format_id), gtrid |-> gtrid, bqual |-> Some(bqual)]

\* The Xid objects the application passes in: (42, "a", "q"), (42, "b", "q").
Xids == {Xid(42, <<96 + g>>, <<113>>) : g \in Gtrids}

\* The base64 alphabet: A-Z, a-z, 0-9, + and /.
B64Alphabet ==
    [i \in 1 .. 64 |-> IF i <= 26 THEN 64 + i
                       ELSE IF i <= 52 THEN 70 + i
                       ELSE IF i <= 62 THEN i - 5
                       ELSE IF i = 63 THEN 43 ELSE 47]

IsB64(c) == \E i \in 1 .. 64 : B64Alphabet[i] = c
B64Value(c) == (CHOOSE i \in 1 .. 64 : B64Alphabet[i] = c) - 1

\* binascii.b2a_base64 without its newline: three bytes become four
\* characters, the last group is padded with "=".
RECURSIVE b2a_base64(_)
b2a_base64(bytes) ==
    IF bytes = <<>> THEN <<>>
    ELSE LET b1 == bytes[1]
             b2 == IF Len(bytes) >= 2 THEN bytes[2] ELSE 0
             b3 == IF Len(bytes) >= 3 THEN bytes[3] ELSE 0
             c1 == B64Alphabet[(b1 \div 4) + 1]
             c2 == B64Alphabet[(b1 % 4) * 16 + (b2 \div 16) + 1]
             c3 == B64Alphabet[(b2 % 16) * 4 + (b3 \div 64) + 1]
             c4 == B64Alphabet[(b3 % 64) + 1]
         IN IF Len(bytes) = 1 THEN <<c1, c2, Pad, Pad>>
            ELSE IF Len(bytes) = 2 THEN <<c1, c2, c3, Pad>>
            ELSE <<c1, c2, c3, c4>> \o b2a_base64(SubSeq(bytes, 4, Len(bytes)))

\* str.encode('base64'): each piece of MAXBINSIZE bytes is encoded and
\* followed by a newline.
RECURSIVE encode_base64(_)
encode_base64(s) ==
    IF s = <<>> THEN <<>>
    ELSE LET n == IF Len(s) < MAXBINSIZE THEN Len(s) ELSE MAXBINSIZE
         IN b2a_base64(SubSeq(s, 1, n)) \o <<Newline>>
                \o encode_base64(SubSeq(s, n + 1, Len(s)))

\* str.encode('base64')[:-1]: the encoding without its last character.
b64(s) ==
    LET e == encode_base64(s)
    IN IF e = <<>> THEN <<>> ELSE SubSeq(e, 1, Len(e) - 1)

\* The first character after position i that belongs to base64 text (the
\* alphabet or the pad), 0 when there is none.
find_valid(s, i) ==
    LET valid == {j \in i + 1 .. Len(s) : IsB64(s[j]) \/ s[j] = Pad}
    IN IF valid = {} THEN 0
       ELSE s[CHOOSE j \in valid : \A k \in valid : j <= k]

\* quad_pos when binascii.a2b_base64 reads position i: how many characters
\* of the alphabet it has taken since the last full group of four.
quad_pos(s, i) == Cardinality({j \in 1 .. i - 1 : IsB64(s[j])}) % 4

\* binascii.a2b_base64: characters outside the alphabet are skipped; a pad
\* is skipped while the group holds fewer than two characters, and, when it
\* holds exactly two, unless another pad follows; any other pad ends the
\* input.  Each character of the alphabet adds six bits and every eight bits
\* make a byte; bits left over at the end of the input are "Incorrect
\* padding".
a2b_base64(s) ==
    LET stops == {i \in 1 .. Len(s) :
                    /\ s[i] = Pad
                    /\ ~(\/ quad_pos(s, i) < 2
                         \/ quad_pos(s, i) = 2 /\ find_valid(s, i) # Pad)}
        stop == IF stops = {} THEN Len(s) + 1
                ELSE CHOOSE i \in stops : \A k \in stops : i <= k
        data == SelectSeq(SubSeq(s, 1, stop - 1), IsB64)
        v(k) == B64Value(data[k])
        byte(k) ==
            LET q == 4 * ((k - 1) \div 3)
            IN CASE (k - 1) % 3 = 0 -> v(q + 1) * 4 + (v(q + 2) \div 16)
                 [] (k - 1) % 3 = 1 -> (v(q + 2) % 16) * 16 + (v(q + 3) \div 4)
                 [] (k - 1) % 3 = 2 -> (v(q + 3) % 4) * 64 + v(q + 4)
        leftbits == IF stops = {} THEN (6 * Len(data)) % 8 ELSE 0
    IN [exc |-> IF leftbits # 0 THEN "Error" ELSE "none",
        val |-> [k \in 1 .. ((6 * Len(data)) \div 8) |-> byte(k)]]

\* Variant of decode_base64 that hands back the text it is given.
decode_verbatim(s) == [exc |-> "none", val |-> s]

\* str.decode('base64').
decode_base64(s) == a2b_base64(s)

\* "%d" of a non-negative integer.
RECURSIVE Decimal(_)
Decimal(n) ==
    IF n < 10 THEN <<48 + n>> ELSE Append(Decimal(n \div 10), 48 + (n % 10))

\* int() of a string of digits.
RECURSIVE int(_)
int(digits) ==
    IF digits = <<>> THEN 0
    ELSE 10 * int(SubSeq(digits, 1, Len(digits) - 1))
             + (digits[Len(digits)] - 48)

\* Xid.as_tid / Xid.__str__: "%d_%s_%s" of the format id and the two
\* base64-encoded strings; the gtrid alone when there is no format id.
as_tid(xid) ==
    IF xid.format_id # None
    THEN Decimal(xid.format_id[1]) \o <<Underscore>> \o b64(xid.gtrid)
             \o <<Underscore>> \o b64(xid.bqual[1])
    ELSE xid.gtrid

\* The positions of the underscores of s.
Underscores(s) == {i \in 1 .. Len(s) : s[i] = Underscore}

\* _re.match(s) for "^(\d+)_([^_]*)_([^_]*)$": the three groups, or None.
\* "[^_]" takes a newline too, so the last group runs to the end of s.
re_match(s) ==
    LET us == Underscores(s)
        u1 == CHOOSE i \in us : \A j \in us : i <= j
        u2 == CHOOSE i \in us : \A j \in us : j <= i
    IN IF /\ Cardinality(us) = 2
          /\ u1 > 1
          /\ \A i \in 1 .. u1 - 1 : 48 <= s[i] /\ s[i] <= 57
       THEN Some(<<SubSeq(s, 1, u1 - 1), SubSeq(s, u1 + 1, u2 - 1),
                   SubSeq(s, u2 + 1, Len(s))>>)
       ELSE None

\* Xid.from_string: the Xid a token names; any exception on the way (a
\* group that does not decode, components that Xid.__init__ refuses) gives
\* the unparsed Xid, which keeps the whole string as its gtrid.
from_string(s) ==
    LET m == re_match(s)
        unparsed == [format_id |-> None, gtrid |-> s, bqual |-> None]
    IN IF m = None THEN unparsed
       ELSE LET format_id == int(m[1][1])
                gtrid == decode_base64(m[1][2])
                bqual == decode_base64(m[1][3])
            IN IF /\ gtrid.exc = "none"
                  /\ bqual.exc = "none"
                  /\ XidValid(format_id, gtrid.val, bqual.val)
               THEN Xid(format_id, gtrid.val, bqual.val)
               ELSE unparsed

\* A command as handed to PQexec: its text up to the argument, and the
\* quoted transaction token it carries (None when it carries none).
Cmd(name) == [cmd |-> name, arg |-> None]
TpcCmd(name, tid) == [cmd |-> name, arg |-> Some(tid)]

\* SQLSTATE classes a rejected command may carry; "null" is PQexec
\* returning no result at all.
FailKinds == {"null", "42"}

\* The server outcomes of a call that hands at most n commands to PQexec:
\* <<0, _>> all succeed, <<i, kind>> the i-th is rejected with kind.
Fails(n) == {<<0, "null">>} \cup ((1 .. n) \X FailKinds)

\* The client encodings known to the encodings table, and a name that is not.
Encodings == {"UTF8", "LATIN1"}
EncodingInputs == Encodings \cup {"BOGUS"}

\* The isolation levels the application passes (5 is out of range).
LevelInputs == {ISOLATION_LEVEL_AUTOCOMMIT, ISOLATION_LEVEL_READ_UNCOMMITTED,
                ISOLATION_LEVEL_READ_COMMITTED, 5}

(***************************************************************************)
(* Call frames                                                             *)
(***************************************************************************)
Start(c, cu) ==
    [c |-> c, cur |-> cu, exc |-> "none", sent |-> <<>>, failed |-> FALSE, marks |-> 0,
     finished |-> FALSE, got |-> 0, cleared |-> 0,
     res |-> [st |-> "COMMAND_OK", code |-> "none", first |-> 0, n |-> -1,
              cols |-> <<>>],
     ret |-> <<>>, stop |-> FALSE,
     copy |-> [file |-> <<>>, putfail |-> 0, final |-> "none", put |-> <<>>,
               error |-> 0, ends |-> <<>>, dropped |-> <<>>]]
Ok(r) == r.exc = "none"
Raise(r, e) == [r EXCEPT !.exc = e]

\* The characters of the SQLSTATE codes of the model, as PQresultErrorField
\* gives them.  "23", "42" and "34" name one code of their class
\* (unique_violation, syntax_error, invalid_cursor_name).
Chars(code) ==
    CASE code = "23" -> <<"2", "3", "5", "0", "5">>
      [] code = "42" -> <<"4", "2", "6", "0", "1">>
      [] code = "34" -> <<"3", "4", "0", "0", "0">>
      [] code = "44000" -> <<"4", "4", "0", "0", "0">>
      [] code = "0A000" -> <<"0", "A", "0", "0", "0">>
      [] code = "57014" -> <<"5", "7", "0", "1", "4">>
      [] code = "40001" -> <<"4", "0", "0", "0", "1">>
      [] code = "40P01" -> <<"4", "0", "P", "0", "1">>
      [] code = "22012" -> <<"2", "2", "0", "1", "2">>
      [] code = "53100" -> <<"5", "3", "1", "0", "0">>

\* Python's  a in b  on strings: a is a substring of b.
InStr(a, b) ==
    \E i \in 0 .. Len(b) - Len(a) : \A j \in 1 .. Len(a) : b[i + j] = a[j]

\* util.get_exception_for_sqlstate: the SQLSTATE table of the package.
get_exception_for_sqlstate(code) ==
    LET c == Chars(code) IN
    IF c[1] = "0" /\ c[2] = "A" THEN "NotSupportedError"
    ELSE IF c[1] = "2" /\ c[2] = "1" THEN "ProgrammingError"
    ELSE IF c[1] = "2" /\ c[2] = "2" THEN "DataError"
    ELSE IF c[1] = "2" /\ c[2] = "3" THEN "IntegrityError"
    ELSE IF c[1] = "2" /\ InStr(<<c[2]>>, <<"4", "5">>) THEN "InternalError"
    ELSE IF c[1] = "2" /\ InStr(<<c[2]>>, <<"6", "7", "8">>) THEN "OperationalError"
    ELSE IF c[1] = "2" /\ InStr(<<c[2]>>, <<"B", "D", "F">>) THEN "InternalError"
    ELSE IF c[1] = "3" /\ c[2] = "4" THEN "OperationalError"
    ELSE IF c[1] = "3" /\ InStr(<<c[2]>>, <<"8", "9", "B">>) THEN "InternalError"
    ELSE IF c[1] = "3" /\ InStr(<<c[2]>>, <<"D", "F">>) THEN "ProgrammingError"
    ELSE IF c[1] = "4" /\ c[2] = "0" THEN "TransactionRollbackError"
    ELSE IF c[1] = "4" /\ InStr(<<c[2]>>, <<"2", "4">>) THEN "ProgrammingError"
    ELSE IF c[1] = "5" /\ c = <<"5", "7", "0", "1", "4">> THEN "QueryCanceledError"
    ELSE IF c[1] = "5" /\ InStr(c, <<"3", "4", "5", "7", "8">>) THEN "OperationalError"
    ELSE IF c[1] \in {"F", "P", "X"} THEN "InternalError"
    ELSE "DatabaseError"

\* Connection._get_exc_type_for_state: the exception type for a SQLSTATE,
\* "none" where it leaves exc_type None.
_get_exc_type_for_state(code) ==
    LET c == Chars(code) IN
    IF c[1] = "2" /\ c[2] = "3" THEN "IntegrityError"
    ELSE IF c[1] = "4" /\ c[2] = "2" THEN "ProgrammingError"
    ELSE "none"

\* Connection._create_exception: the exception for a failed command.
_create_exception(kind) ==
    IF kind = "null" THEN "OperationalError"
    ELSE IF _get_exc_type_for_state(kind) = "none" THEN "OperationalError"
    ELSE _get_exc_type_for_state(kind)

\* What libpq's PQexec does before it sends: it waits for a query that is
\* still on its way on the handle and throws its result away.  Only a
\* non-blocking connection can have one (r.pq is its handle).
PQexecStart(r) ==
    IF r.c.async THEN [r EXCEPT !.pq.inflight = FALSE] ELSE r

\* Connection._execute_command: PQexec(command); raise unless COMMAND_OK.
_execute_command(r, command, fa, kind) ==
    IF ~Ok(r) THEN r
    ELSE LET s == Append(r.sent, command)
             r0 == PQexecStart(r)
         IN IF Len(s) = fa
            THEN [r0 EXCEPT !.sent = s, !.failed = TRUE, !.exc = _create_exception(kind)]
            ELSE [r0 EXCEPT !.sent = s]

(***************************************************************************)
(* Connection: decorators                                                  *)
(***************************************************************************)
\* connection.check_closed
check_closed(r) ==
    IF ~Ok(r) THEN r
    ELSE IF r.c.closed THEN Raise(r, "InterfaceError") ELSE r

\* connection.check_notrans
check_notrans(r) ==
    IF ~Ok(r) THEN r
    ELSE IF r.c.status # STATUS_READY THEN Raise(r, "ProgrammingError") ELSE r

\* Variant of check_tpc that lets the call through.
check_tpc_absent(r) == r

\* connection.check_tpc: "if self._tpc_xid: raise"
check_tpc(r) ==
    IF ~Ok(r) THEN r
    ELSE IF r.c.tpc_xid # None THEN Raise(r, "ProgrammingError") ELSE r

\* connection.check_async
check_async(r) ==
    IF ~Ok(r) THEN r
    ELSE IF r.c.async THEN Raise(r, "ProgrammingError") ELSE r

(***************************************************************************)
(* Connection: private helpers                                             *)
(***************************************************************************)
\* Variant of _begin_transaction that does not look at the status.
_begin_transaction_any_status(r, fa, kind) ==
    IF ~Ok(r) THEN r
    ELSE IF ~r.c.autocommit
    THEN LET r1 == _execute_command(r, Cmd("BEGIN"), fa, kind) IN
         IF Ok(r1) THEN [r1 EXCEPT !.c.status = STATUS_BEGIN] ELSE r1
    ELSE r

\* Connection._begin_transaction
_begin_transaction(r, fa, kind) ==
    IF ~Ok(r) THEN r
    ELSE IF r.c.status = STATUS_READY /\ ~r.c.autocommit
    THEN LET r1 == _execute_command(r, Cmd("BEGIN"), fa, kind) IN
         IF Ok(r1) THEN [r1 EXCEPT !.c.status = STATUS_BEGIN] ELSE r1
    ELSE r

\* Connection._commit
_commit(r, fa, kind) ==
    IF ~Ok(r) THEN r
    ELSE IF r.c.autocommit \/ r.c.status # STATUS_BEGIN THEN r
    ELSE LET r1 == [r EXCEPT !.marks = @ + 1]
             r2 == _execute_command(r1, Cmd("COMMIT"), fa, kind)
         IN IF Ok(r2) THEN [r2 EXCEPT !.c.status = STATUS_READY] ELSE r2

\* Variant of _rollback that does not look at the status.
_rollback_any_status(r, fa, kind) ==
    IF ~Ok(r) THEN r
    ELSE IF r.c.autocommit THEN r
    ELSE LET r1 == [r EXCEPT !.marks = @ + 1]
             r2 == _execute_command(r1, Cmd("ROLLBACK"), fa, kind)
         IN IF Ok(r2) THEN [r2 EXCEPT !.c.status = STATUS_READY] ELSE r2

\* Variant of _rollback that leaves the status as it is.
_rollback_keeps_status(r, fa, kind) ==
    IF ~Ok(r) THEN r
    ELSE IF r.c.autocommit \/ r.c.status # STATUS_BEGIN THEN r
    ELSE _execute_command([r EXCEPT !.marks = @ + 1], Cmd("ROLLBACK"), fa, kind)

\* Connection._rollback
_rollback(r, fa, kind) ==
    IF ~Ok(r) THEN r
    ELSE IF r.c.autocommit \/ r.c.status # STATUS_BEGIN THEN r
    ELSE LET r1 == [r EXCEPT !.marks = @ + 1]
             r2 == _execute_command(r1, Cmd("ROLLBACK"), fa, kind)
         IN IF Ok(r2) THEN [r2 EXCEPT !.c.status = STATUS_READY] ELSE r2

\* Variant of _execute_tpc_command that leaves the transaction token out.
_execute_tpc_command_no_token(r, command, xid, fa, kind) ==
    IF ~Ok(r) THEN r
    ELSE LET r1 == _execute_command(r, Cmd(command), fa, kind) IN
         IF Ok(r1) THEN [r1 EXCEPT !.marks = @ + 1] ELSE r1

\* Connection._execute_tpc_command: "<command> <quoted str(xid)>", then
\* self._mark += 1.
_execute_tpc_command(r, command, xid, fa, kind) ==
    IF ~Ok(r) THEN r
    ELSE LET r1 == _execute_command(r, TpcCmd(command, as_tid(xid)), fa, kind) IN
         IF Ok(r1) THEN [r1 EXCEPT !.marks = @ + 1] ELSE r1

\* Variant of _finish_tpc whose recovery branch does not require status
\* READY.
_finish_tpc_any_status(r, command, fallback, xid, fa, kind) ==
    IF ~Ok(r) THEN r
    ELSE IF xid # None
    THEN _execute_tpc_command(r, command, xid[1], fa, kind)
    ELSE IF r.c.tpc_xid = None THEN Raise(r, "ProgrammingError")
    ELSE LET r1 == IF r.c.status = STATUS_BEGIN
                   THEN (IF fallback = "COMMIT" THEN _commit(r, fa, kind)
                                                ELSE _rollback(r, fa, kind))
                   ELSE IF r.c.status = STATUS_PREPARED
                   THEN _execute_tpc_command(r, command, r.c.tpc_xid[1], fa, kind)
                   ELSE Raise(r, "InterfaceError")
         IN IF Ok(r1)
            THEN [r1 EXCEPT !.c.status = STATUS_READY, !.c.tpc_xid = None]
            ELSE r1

\* Connection._finish_tpc; fallback is "COMMIT" for self._commit and
\* "ROLLBACK" for self._rollback.  xid is None or Some(an Xid).
_finish_tpc(r, command, fallback, xid, fa, kind) ==
    IF ~Ok(r) THEN r
    ELSE IF xid # None
    THEN \* committing/aborting a received transaction
         IF r.c.status # STATUS_READY THEN Raise(r, "ProgrammingError")
         ELSE _execute_tpc_command(r, command, xid[1], fa, kind)
    ELSE \* committing/aborting our own transaction
         IF r.c.tpc_xid = None THEN Raise(r, "ProgrammingError")
         ELSE LET r1 == IF r.c.status = STATUS_BEGIN
                        THEN (IF fallback = "COMMIT" THEN _commit(r, fa, kind)
                                                     ELSE _rollback(r, fa, kind))
                        ELSE IF r.c.status = STATUS_PREPARED
                        THEN _execute_tpc_command(r, command, r.c.tpc_xid[1], fa, kind)
                        ELSE Raise(r, "InterfaceError")
              IN IF Ok(r1)
                 THEN [r1 EXCEPT !.c.status = STATUS_READY, !.c.tpc_xid = None]
                 ELSE r1

\* Connection._get_guc('default_transaction_isolation'): a SHOW through
\* PQexec; any failure is an OperationalError.
_get_guc(r, fa) ==
    IF ~Ok(r) THEN r
    ELSE LET s == Append(r.sent, Cmd("SHOW")) IN
         IF Len(s) = fa
         THEN [r EXCEPT !.sent = s, !.failed = TRUE, !.exc = "OperationalError"]
         ELSE [r EXCEPT !.sent = s]

\* Connection._set_guc / _set_guc_onoff: "SET <name> TO <value>".
_set_guc(r, name, fa, kind) == _execute_command(r, Cmd(name), fa, kind)

\* Connection.isolation_level (property, check_closed): the frame after the
\* read; the value read is isolation_level_value of the frame before it.
isolation_level(r, fa) ==
    IF ~Ok(check_closed(r)) THEN check_closed(r)
    ELSE IF r.c.autocommit THEN r
    ELSE _get_guc(r, fa)

isolation_level_value(r) ==
    IF r.c.autocommit THEN ISOLATION_LEVEL_AUTOCOMMIT ELSE r.c.srv_isolation

(***************************************************************************)
(* Connection: public methods                                              *)
(***************************************************************************)
\* Connection.rollback
rollback(r, fa, kind) == _rollback(check_tpc(check_async(check_closed(r))), fa, kind)

\* Connection.commit
commit(r, fa, kind) == _commit(check_tpc(check_async(check_closed(r))), fa, kind)

\* Connection.reset
reset(r, fa, kind) ==
    LET r1 == _execute_command(check_async(check_closed(r)), Cmd("ABORT"), fa, kind) IN
    IF ~Ok(r1) THEN r1
    ELSE [r1 EXCEPT !.c.status = STATUS_READY,
                    !.marks = @ + 1,
                    !.c.autocommit = FALSE,
                    !.c.tpc_xid = None,
                    !.c.srv_isolation = ISOLATION_LEVEL_READ_COMMITTED]

\* Connection.set_session; a = [isolation_level, readonly, deferrable,
\* autocommit], each None or Some(value).
set_session(r, a, fa, kind) ==
    LET r0 == check_notrans(check_closed(r))
        lv == a.isolation_level
        r1 == IF ~Ok(r0) \/ lv = None THEN r0
              ELSE IF lv[1] < 1 \/ lv[1] > 4 THEN Raise(r0, "ValueError")
              ELSE LET q == _set_guc(r0, "SET default_transaction_isolation", fa, kind) IN
                   IF Ok(q) THEN [q EXCEPT !.c.srv_isolation = lv[1]] ELSE q
        r2 == IF ~Ok(r1) \/ a.readonly = None THEN r1
              ELSE _set_guc(r1, "SET default_transaction_read_only", fa, kind)
        r3 == IF ~Ok(r2) \/ a.deferrable = None THEN r2
              ELSE _set_guc(r2, "SET default_transaction_deferrable", fa, kind)
    IN IF ~Ok(r3) \/ a.autocommit = None THEN r3
       ELSE [r3 EXCEPT !.c.autocommit = a.autocommit[1]]

SessionArgs(lv, ro, df, ac) ==
    [isolation_level |-> lv, readonly |-> ro, deferrable |-> df, autocommit |-> ac]

\* Variant of set_isolation_level that does not end the open transaction.
set_isolation_level_no_rollback(r, level, fa, kind) ==
    LET r0 == check_async(r) IN
    IF ~Ok(r0) THEN r0
    ELSE IF level < 0 \/ level > 4 THEN Raise(r0, "ValueError")
    ELSE LET r1 == isolation_level(r0, fa) IN
         IF ~Ok(r1) THEN r1
         ELSE IF isolation_level_value(r0) = level THEN r1
         ELSE IF level = ISOLATION_LEVEL_AUTOCOMMIT
              THEN set_session(r1, SessionArgs(None, None, None, Some(TRUE)), fa, kind)
              ELSE set_session(r1, SessionArgs(Some(level), None, None, Some(FALSE)),
                               fa, kind)

\* Connection.set_isolation_level
set_isolation_level(r, level, fa, kind) ==
    LET r0 == check_async(r) IN
    IF ~Ok(r0) THEN r0
    ELSE IF level < 0 \/ level > 4 THEN Raise(r0, "ValueError")
    ELSE LET r1 == isolation_level(r0, fa) IN
         IF ~Ok(r1) THEN r1
         ELSE IF isolation_level_value(r0) = level THEN r1
         ELSE LET r2 == _rollback(r1, fa, kind) IN
              IF level = ISOLATION_LEVEL_AUTOCOMMIT
              THEN set_session(r2, SessionArgs(None, None, None, Some(TRUE)), fa, kind)
              ELSE set_session(r2, SessionArgs(Some(level), None, None, Some(FALSE)),
                               fa, kind)

\* Connection.set_client_encoding; the encoding name is taken as already
\* normalized.
set_client_encoding(r, encoding, fa, kind) ==
    LET r0 == check_async(check_closed(r)) IN
    IF ~Ok(r0) THEN r0
    ELSE IF r0.c.encoding = encoding THEN r0
    ELSE IF encoding \notin Encodings THEN Raise(r0, "KeyError")
    ELSE LET r1 == _set_guc(_rollback(r0, fa, kind), "SET client_encoding", fa, kind) IN
         IF Ok(r1) THEN [r1 EXCEPT !.c.encoding = encoding] ELSE r1

\* Connection.tpc_begin; xid is an Xid object.
tpc_begin(r, xid, fa, kind) ==
    LET r0 == check_async(check_closed(r)) IN
    IF ~Ok(r0) THEN r0
    ELSE IF r0.c.status # STATUS_READY THEN Raise(r0, "ProgrammingError")
    ELSE IF r0.c.autocommit THEN Raise(r0, "ProgrammingError")
    ELSE LET r1 == _begin_transaction(r0, fa, kind) IN
         IF Ok(r1) THEN [r1 EXCEPT !.c.tpc_xid = Some(xid)] ELSE r1

\* Connection.tpc_commit
tpc_commit(r, xid, fa, kind) ==
    _finish_tpc(check_async(check_closed(r)), "COMMIT PREPARED", "COMMIT", xid, fa, kind)

\* Connection.tpc_rollback
tpc_rollback(r, xid, fa, kind) ==
    _finish_tpc(check_async(check_closed(r)), "ROLLBACK PREPARED", "ROLLBACK", xid, fa, kind)

\* Variant of tpc_prepare that only checks for a TPC transaction, as the
\* method of the older psycopg2ct/connection.py does.
tpc_prepare_check_only(r, fa, kind) ==
    LET r0 == check_async(check_closed(r)) IN
    IF ~Ok(r0) THEN r0
    ELSE IF r0.c.tpc_xid = None THEN Raise(r0, "ProgrammingError")
    ELSE r0

\* Connection.tpc_prepare
tpc_prepare(r, fa, kind) ==
    LET r0 == check_async(check_closed(r)) IN
    IF ~Ok(r0) THEN r0
    ELSE IF r0.c.tpc_xid = None THEN Raise(r0, "ProgrammingError")
    ELSE LET r1 == _execute_tpc_command(r0, "PREPARE TRANSACTION", r0.c.tpc_xid[1],
                                        fa, kind) IN
         IF Ok(r1) THEN [r1 EXCEPT !.c.status = STATUS_PREPARED] ELSE r1

\* Variant of _close that keeps the handle after PQfinish.
_close_keeps_handle(r) ==
    IF ~Ok(r) THEN r
    ELSE [r EXCEPT !.c.closed = TRUE,
                   !.finished = r.c.pgconn,
                   !.c.notice_callback = FALSE,
                   !.c.notices = <<>>]

\* Connection._close: PQfinish on the handle if there is one, the notice
\* callback dropped, the notices emptied.
_close(r) ==
    IF ~Ok(r) THEN r
    ELSE [r EXCEPT !.c.closed = TRUE,
                   !.finished = r.c.pgconn,
                   !.c.pgconn = FALSE,
                   !.c.notice_callback = FALSE,
                   !.c.notices = <<>>]

\* Variant of close without the check_closed decorator.
close_unchecked(r) == _close(r)

\* Connection.close
close(r) == _close(check_closed(r))

\* Variant of _process_notice that drops the newest messages when full.
_process_notice_keeps_oldest(r, message) ==
    LET n == Append(r.c.notices, message) IN
    [r EXCEPT !.c.notices = IF Len(n) > NoticesKept THEN SubSeq(n, 1, NoticesKept) ELSE n]

\* Connection._process_notice: append, then "del self.notices[:length - 50]"
_process_notice(r, message) ==
    LET n == Append(r.c.notices, message)
        length == Len(n)
    IN [r EXCEPT !.c.notices = IF length > NoticesKept
                               THEN SubSeq(n, length - NoticesKept + 1, length)
                               ELSE n]

(***************************************************************************)
(* Cursor                                                                  *)
(***************************************************************************)
\* A result as libpq hands it over: its PQresultStatus, its SQLSTATE class
\* when it is an error, and its rows.  Rows are numbered as the query
\* produces them: a tuples result holds rows first .. first + n - 1; n is
\* also what PQcmdTuples gives for a command (-1 when it gives nothing).
\* cols describes the columns of a tuples result: for each what PQftype,
\* PQfsize and PQfmod give.
Res(st, code, first, n) ==
    [st |-> st, code |-> code, first |-> first, n |-> n, cols |-> <<>>]
CommandOk(n) == Res("COMMAND_OK", "none", 0, n)
TuplesOk(first, n) == Res("TUPLES_OK", "none", first, n)
TuplesOkCols(first, n, cols) == [TuplesOk(first, n) EXCEPT !.cols = cols]
EmptyQuery == Res("EMPTY_QUERY", "none", 0, 0)
CopyIn == Res("COPY_IN", "none", 0, 0)
FatalError(code) == Res("FATAL_ERROR", code, 0, 0)

\* The type id of NUMERIC that _pq_fetch_tuples tests for
NUMERIC == 1700

\* Variant of Column that leaves the size and precision fields out.
Column_two_fields(f) == [name |-> "col", type_code |-> f.ftype]

\* The Column entry _pq_fetch_tuples builds for a field f = [ftype, fsize,
\* fmod]; ">> 16" and "& 0xFFFF" of the code are \div 65536 and % 65536.
Column(f) ==
    LET fmod == IF f.fmod > 0 THEN f.fmod - 4 ELSE f.fmod
        isize == IF f.fsize = -1
                 THEN IF f.ftype = NUMERIC THEN fmod \div 65536 ELSE fmod
                 ELSE f.fsize
    IN [name |-> "col", type_code |-> f.ftype, display_size |-> None,
        internal_size |-> Some(isize),
        precision |-> IF f.ftype = NUMERIC THEN Some((fmod \div 65536) % 65536) ELSE None,
        scale |-> IF f.ftype = NUMERIC THEN Some(fmod % 65536) ELSE None,
        null_ok |-> None]

\* Cursor.__init__ as called by Connection.cursor(name).  portal is the
\* server's side of a named cursor: None, or the number of rows of its query
\* and how many of them have been fetched.
Cursor(name) ==
    [name |-> name, closed |-> FALSE, query |-> None,
     no_tuples |-> TRUE, rowcount |-> -1, rownumber |-> 0, pgres |-> None,
     arraysize |-> DefaultArraysize, itersize |-> DefaultItersize, portal |-> None,
     description |-> None]

\* Variant of the cursor's check_closed that looks at the cursor's own flag
\* only.
cursor_check_closed_own_flag(r) ==
    IF ~Ok(r) THEN r
    ELSE IF r.cur.closed THEN Raise(r, "InterfaceError") ELSE r

\* cursor.check_closed with Cursor.closed: "self._closed or self._conn.closed"
cursor_check_closed(r) ==
    IF ~Ok(r) THEN r
    ELSE IF r.cur.closed \/ r.c.closed THEN Raise(r, "InterfaceError") ELSE r

\* cursor.check_no_tuples
check_no_tuples(r) ==
    IF ~Ok(r) THEN r
    ELSE IF r.cur.no_tuples /\ r.cur.name = None THEN Raise(r, "ProgrammingError")
    ELSE r

\* cursor.check_async
cursor_check_async(r) ==
    IF ~Ok(r) THEN r
    ELSE IF r.c.async THEN Raise(r, "ProgrammingError") ELSE r

\* libpq.PQclear(self._pgres): releases the result the cursor holds, does
\* nothing for a null pointer.  r.cleared counts the results released, r.got
\* the results handed to the cursor, during the call.
PQclear(r) == IF r.cur.pgres # None THEN [r EXCEPT !.cleared = @ + 1] ELSE r

\* Cursor._clear_pgres
_clear_pgres(r) == IF ~Ok(r) THEN r ELSE [PQclear(r) EXCEPT !.cur.pgres = None]

\* util.pq_clear_async: every result PQgetResult still gives is released,
\* whatever its status.  After PQputCopyEnd the server gives the result of
\* the COPY command: r.copy.final is its SQLSTATE class ("none" for
\* PGRES_COMMAND_OK); a COPY ended with an error message fails.
CopyAborted == "57"
pq_clear_async(r) ==
    [r EXCEPT !.copy.dropped =
        Append(@, IF r.copy.error = 0 THEN r.copy.final
                  ELSE IF r.copy.final = "none" THEN CopyAborted ELSE r.copy.final)]

\* The loop of _pq_fetch_copy_in after i reads: read(size) gives the next
\* chunk of r.copy.file, the empty string when the stream is exhausted;
\* PQputCopyData takes the chunk (r.copy.put) or, for chunk r.copy.putfail,
\* answers <= 0, which sets error = 2 and leaves the loop.
RECURSIVE copy_in_loop(_, _)
copy_in_loop(r, i) ==
    LET data == IF i < Len(r.copy.file) THEN r.copy.file[i + 1] ELSE ""
    IN IF data = "" THEN r
       ELSE IF r.copy.putfail = i + 1 THEN [r EXCEPT !.copy.error = 2]
       ELSE copy_in_loop([r EXCEPT !.copy.put = Append(@, data)], i + 1)

\* Cursor._pq_fetch_copy_in: the loop, PQputCopyEnd with the error message
\* (r.copy.ends lists the messages of the calls), _clear_pgres and
\* pq_clear_async.  Nothing is raised.
_pq_fetch_copy_in(r) ==
    LET r0 == copy_in_loop(r, 0)
        errmsg == IF r0.copy.error = 2 THEN Some("error in PQputCopyData() call")
                  ELSE None
    IN pq_clear_async(_clear_pgres([r0 EXCEPT !.copy.ends = Append(@, errmsg)]))

\* A command on a named cursor: FETCH FORWARD carries the number of rows
\* asked for (FetchAll for ALL).
FetchAll == -1
FetchCmd(k) == [cmd |-> "FETCH", arg |-> Some(k)]

\* What the server answers to a command it accepts.  The statement of an
\* execute gets r.res, the result chosen for this call; DECLARE and CLOSE are
\* plain commands; FETCH FORWARD k returns the next k rows of the portal (the
\* server rejects it when there is no such cursor).
ServerResult(r, command) ==
    IF command.cmd \in {"QUERY", "COPY"} THEN r.res
    ELSE IF command.cmd = "FETCH"
    THEN IF r.cur.portal = None THEN FatalError("34")
         ELSE LET p == r.cur.portal[1]
                  k == command.arg[1]
                  left == p.n - p.pos
              IN TuplesOk(p.pos, IF k = FetchAll \/ k > left THEN left ELSE k)
    ELSE CommandOk(-1)

\* The server's side of the named cursor after it accepted the command.
ServerPortal(r, command) ==
    IF command.cmd = "DECLARE"
    THEN Some([n |-> IF r.res.st = "TUPLES_OK" THEN r.res.n ELSE 0, pos |-> 0])
    ELSE IF command.cmd = "FETCH" /\ r.cur.portal # None
    THEN Some([r.cur.portal[1] EXCEPT !.pos = @ + ServerResult(r, command).n])
    ELSE IF command.cmd = "CLOSE" THEN None
    ELSE r.cur.portal

\* Cursor._pq_fetch on the result in self._pgres
_pq_fetch(r) ==
    IF ~Ok(r) THEN r
    ELSE LET res == IF r.cur.pgres = None THEN FatalError("null") ELSE r.cur.pgres[1]
             r0 == [r EXCEPT !.cur.no_tuples = TRUE, !.cur.rownumber = 0]
         IN IF res.st = "COMMAND_OK"
            THEN _clear_pgres([r0 EXCEPT !.cur.rowcount = res.n])
            ELSE IF res.st = "TUPLES_OK"
            THEN [r0 EXCEPT !.cur.rowcount = res.n, !.cur.no_tuples = FALSE,
                            !.cur.description =
                                Some([i \in 1 .. Len(res.cols) |-> Column(res.cols[i])])]
            ELSE IF res.st = "COPY_IN" THEN _pq_fetch_copy_in(r0)
            ELSE IF res.st = "EMPTY_QUERY" THEN Raise(r0, "ProgrammingError")
            ELSE Raise(r0, _create_exception(res.code))

\* libpq's PQsendQuery on the handle r.pq: it refuses (0) when the connection
\* is not established or is broken, and while an earlier query is on its way
\* or its result has not been taken.
PQsendQueryOk(r) ==
    /\ r.pq.healthy
    /\ r.c.status \notin {STATUS_SETUP, STATUS_CONNECTING}
    /\ ~r.pq.inflight

\* The handle after PQsendQuery accepted a query: r.res is the result the
\* server will give, r.net how many more PQflush and PQisBusy calls the
\* network needs.
PQsendQuery(r) ==
    [r EXCEPT !.pq.inflight = TRUE, !.pq.result = r.res,
              !.pq.flush_left = r.net.flush, !.pq.busy_left = r.net.busy]

\* libpq's PQflush: 1 while output is left to send, 0 when it is all sent.
PQflush(r) == IF r.pq.flush_left > 0 THEN 1 ELSE 0

PQflushed(r) == [r EXCEPT !.pq.flush_left = IF @ > 0 THEN @ - 1 ELSE 0]

\* Cursor._pq_execute, async branch: PQsendQuery; refused while the
\* connection has a cursor waiting raises ProgrammingError, refused
\* otherwise raises what the connection reports; sent: PQflush, then
\* _async_status and _async_cursor (a weak reference to this cursor).
_pq_execute_async(r, command) ==
    IF ~PQsendQueryOk(r)
    THEN IF r.c.async_cursor # None THEN Raise(r, "ProgrammingError")
         ELSE Raise(r, _create_exception("null"))
    ELSE LET r0 == PQsendQuery([r EXCEPT !.sent = Append(@, command)])
             ret == PQflush(r0)
         IN [PQflushed(r0) EXCEPT
                !.c.async_status = IF ret = 0 THEN ASYNC_READ ELSE ASYNC_WRITE,
                !.c.async_cursor = Some("held")]

\* Cursor._pq_execute.  Blocking branch: the statement goes to PQexec; no
\* result raises, any result goes to _pq_fetch.
_pq_execute(r, command, fa, kind) ==
    IF ~Ok(r) THEN r
    ELSE IF r.c.async THEN _pq_execute_async(r, command)
    ELSE LET s == Append(r.sent, command) IN
         IF Len(s) = fa /\ kind = "null"
         THEN [r EXCEPT !.sent = s, !.failed = TRUE, !.cur.pgres = None,
                        !.exc = _create_exception(kind)]
         ELSE IF Len(s) = fa
         THEN _pq_fetch([r EXCEPT !.sent = s, !.failed = TRUE, !.got = @ + 1,
                                  !.cur.pgres = Some(FatalError(kind))])
         ELSE _pq_fetch([r EXCEPT !.sent = s, !.got = @ + 1,
                                  !.cur.pgres = Some(ServerResult(r, command)),
                                  !.cur.portal = ServerPortal(r, command)])

\* Variant of Cursor.execute that begins the transaction before it combines
\* the query with the parameters.
execute_begins_first(r, perr, fa, kind) ==
    LET q == cursor_check_closed(r)
        r0 == IF Ok(q) THEN [q EXCEPT !.cur.description = None] ELSE q
    IN
    IF ~Ok(r0) THEN r0
    ELSE IF r0.cur.name # None /\ r0.cur.query # None THEN Raise(r0, "ProgrammingError")
    ELSE IF r0.cur.name # None /\ r0.c.autocommit THEN Raise(r0, "ProgrammingError")
    ELSE LET r1 == _begin_transaction(r0, fa, kind) IN
         IF ~Ok(r1) THEN r1
         ELSE IF perr # "none" THEN Raise(r1, perr)
         ELSE LET r2 == _clear_pgres([r1 EXCEPT !.cur.query = Some("query")])
              IN _pq_execute(r2, Cmd(IF r2.cur.name # None THEN "DECLARE" ELSE "QUERY"),
                             fa, kind)

\* Variant of Cursor.execute without the "more than once" check of named
\* cursors.
execute_repeatable(r, perr, fa, kind) ==
    LET q == cursor_check_closed(r)
        r0 == IF Ok(q) THEN [q EXCEPT !.cur.description = None] ELSE q
    IN
    IF ~Ok(r0) THEN r0
    ELSE IF r0.cur.name # None /\ r0.c.autocommit THEN Raise(r0, "ProgrammingError")
    ELSE IF perr # "none" THEN Raise(r0, perr)
    ELSE LET r1 == [r0 EXCEPT !.cur.query = Some("query")]
             r2 == _clear_pgres(_begin_transaction(r1, fa, kind))
         IN _pq_execute(r2, Cmd(IF r2.cur.name # None THEN "DECLARE" ELSE "QUERY"),
                        fa, kind)

\* Cursor.execute(query, parameters) with a non-empty query; perr is "none"
\* or the exception that encoding the query or combining it with the
\* parameters raises.  cur.query is None until self._query is assigned.
execute(r, perr, fa, kind) ==
    LET q == cursor_check_closed(r)
        r0 == IF Ok(q) THEN [q EXCEPT !.cur.description = None] ELSE q
    IN
    IF ~Ok(r0) THEN r0
    ELSE IF r0.cur.name # None /\ r0.cur.query # None THEN Raise(r0, "ProgrammingError")
    ELSE IF r0.cur.name # None /\ r0.c.autocommit THEN Raise(r0, "ProgrammingError")
    ELSE IF perr # "none" THEN Raise(r0, perr)
    ELSE LET r1 == [r0 EXCEPT !.cur.query = Some("query")]
             r2 == _clear_pgres(_begin_transaction(r1, fa, kind))
         IN _pq_execute(r2, Cmd(IF r2.cur.name # None THEN "DECLARE" ELSE "QUERY"),
                        fa, kind)

\* The row Cursor._build_row(row_num) builds: the row's number in the query's
\* result.  On a cursor that holds no result PQgetvalue and PQgetisnull
\* answer "null" for every field: NullRow.
NullRow == -1
_build_row(r, row_num) ==
    IF r.cur.pgres = None THEN NullRow ELSE r.cur.pgres[1].first + row_num

\* The rows "for i in xrange(size): rows.append(self._build_row(self._rownumber));
\* self._rownumber += 1" appends.
RowsFrom(r, size) == [i \in 1 .. size |-> _build_row(r, r.cur.rownumber + i - 1)]

\* Cursor.fetchone; the value returned is r.ret: <<>> for None, <<row>>.
fetchone(r, fa, kind) ==
    LET r0 == check_no_tuples(cursor_check_closed(r))
        r1 == IF Ok(r0) /\ r0.cur.name # None
              THEN _pq_execute(r0, FetchCmd(1), fa, kind) ELSE r0
    IN IF ~Ok(r1) THEN r1
       ELSE IF r1.cur.rownumber >= r1.cur.rowcount THEN [r1 EXCEPT !.ret = <<>>]
       ELSE [r1 EXCEPT !.ret = RowsFrom(r1, 1), !.cur.rownumber = @ + 1]

\* Variant of fetchmany that does not move the row pointer.
fetchmany_no_advance(r, size, fa, kind) ==
    LET r0 == check_no_tuples(cursor_check_closed(r))
        sz == IF size = None THEN r.cur.arraysize ELSE size[1]
        left == r0.cur.rowcount - r0.cur.rownumber
        n == IF sz > left \/ sz < 0 THEN left ELSE sz
    IN IF ~Ok(r0) THEN r0
       ELSE IF n <= 0 THEN [r0 EXCEPT !.ret = <<>>]
       ELSE [r0 EXCEPT !.ret = RowsFrom(r0, n)]

\* Cursor.fetchmany(size); size is None or Some(number); r.ret is the list.
fetchmany(r, size, fa, kind) ==
    LET r0 == check_no_tuples(cursor_check_closed(r))
        sz == IF size = None THEN r.cur.arraysize ELSE size[1]
        r1 == IF Ok(r0) /\ r0.cur.name # None
              THEN _pq_execute(r0, FetchCmd(sz), fa, kind) ELSE r0
        left == r1.cur.rowcount - r1.cur.rownumber
        n == IF sz > left \/ sz < 0 THEN left ELSE sz
    IN IF ~Ok(r1) THEN r1
       ELSE IF n <= 0 THEN [r1 EXCEPT !.ret = <<>>]
       ELSE [r1 EXCEPT !.ret = RowsFrom(r1, n), !.cur.rownumber = @ + n]

\* Cursor.fetchall; r.ret is the list.
fetchall(r, fa, kind) ==
    LET r0 == check_no_tuples(cursor_check_closed(r))
        r1 == IF Ok(r0) /\ r0.cur.name # None
              THEN _pq_execute(r0, FetchCmd(FetchAll), fa, kind) ELSE r0
        n == r1.cur.rowcount - r1.cur.rownumber
    IN IF ~Ok(r1) THEN r1
       ELSE IF n <= 0 THEN [r1 EXCEPT !.ret = <<>>]
       ELSE [r1 EXCEPT !.ret = RowsFrom(r1, n), !.cur.rownumber = @ + n]

\* Variant of Cursor.close that forgets to mark the cursor closed.
cursor_close_leaves_open(r, fa, kind) ==
    LET r0 == cursor_check_closed(r)
    IN IF Ok(r0) /\ r0.cur.name # None
       THEN _pq_execute(r0, Cmd("CLOSE"), fa, kind) ELSE r0

\* Cursor.close
cursor_close(r, fa, kind) ==
    LET r0 == cursor_check_closed(r)
        r1 == IF Ok(r0) /\ r0.cur.name # None
              THEN _pq_execute(r0, Cmd("CLOSE"), fa, kind) ELSE r0
    IN IF ~Ok(r1) THEN r1 ELSE [r1 EXCEPT !.cur.closed = TRUE]

\* Cursor.callproc: execute("SELECT * FROM procname(...)", parameters)
callproc(r, perr, fa, kind) == execute(cursor_check_closed(r), perr, fa, kind)

\* One element of the paramlist of executemany: the result the server gives
\* the statement made with it, and perr: "none", "ZeroDivisionError" when
\* the paramlist raises instead of yielding the element, or the exception
\* that combining the query with the element raises.
Param(res, perr) == [res |-> res, perr |-> perr]

\* The local rowcount of executemany after one more execute:
\* "if self.rowcount == -1: rowcount = -1 else: rowcount += self.rowcount"
executemany_rowcount(rc, rowcount) ==
    IF rowcount = -1 THEN -1 ELSE rc + rowcount

\* Variant of the loop of executemany that goes on after an execute raised.
RECURSIVE executemany_loop_goes_on(_, _, _, _, _)
executemany_loop_goes_on(r, plan, rc, fa, kind) ==
    IF plan = <<>> THEN [r EXCEPT !.cur.rowcount = rc]
    ELSE IF Head(plan).perr = "ZeroDivisionError"
    THEN Raise(r, "ZeroDivisionError")
    ELSE LET r1 == execute([r EXCEPT !.res = Head(plan).res, !.exc = "none"],
                           Head(plan).perr, fa, kind)
         IN executemany_loop_goes_on(r1, Tail(plan),
                                     executemany_rowcount(rc, r1.cur.rowcount), fa, kind)

\* The loop of Cursor.executemany over the elements of the paramlist that
\* are left; rc is the local rowcount.  The failure (fa, kind) counts the
\* commands of the whole call.
RECURSIVE executemany_loop(_, _, _, _, _)
executemany_loop(r, plan, rc, fa, kind) ==
    IF ~Ok(r) THEN r
    ELSE IF plan = <<>> THEN [r EXCEPT !.cur.rowcount = rc]
    ELSE IF Head(plan).perr = "ZeroDivisionError"
    THEN Raise(r, "ZeroDivisionError")
    ELSE LET r1 == execute([r EXCEPT !.res = Head(plan).res], Head(plan).perr, fa, kind)
         IN executemany_loop(r1, Tail(plan),
                             executemany_rowcount(rc, r1.cur.rowcount), fa, kind)

\* Cursor.executemany(query, paramlist); plan is the paramlist
executemany(r, plan, fa, kind) ==
    LET r0 == cursor_check_async(cursor_check_closed(r)) IN
    IF ~Ok(r0) THEN r0
    ELSE executemany_loop([r0 EXCEPT !.cur.rowcount = -1], plan, 0, fa, kind)

\* The generator Cursor.__iter__ returns, pulled until it stops or until the
\* consumer has taken `pages` pages from it: rows = fetchmany(itersize); no
\* rows ends it (r.stop: StopIteration); otherwise the row pointer is set to 0
\* and counts the rows of the page as they are yielded.  out is what has been
\* yielded so far and becomes r.ret.
RECURSIVE iterate(_, _, _, _, _)
iterate(r, out, pages, fa, kind) ==
    IF ~Ok(r) THEN [r EXCEPT !.ret = out]
    ELSE IF pages = 0 THEN [r EXCEPT !.ret = out]
    ELSE LET r1 == fetchmany(r, Some(r.cur.itersize), fa, kind) IN
         IF ~Ok(r1) THEN [r1 EXCEPT !.ret = out]
         ELSE IF r1.ret = <<>> THEN [r1 EXCEPT !.ret = out, !.stop = TRUE]
         ELSE iterate([r1 EXCEPT !.cur.rownumber = Len(r1.ret)], out \o r1.ret,
                      pages - 1, fa, kind)

\* Cursor.__iter__ (check_closed when iter() is called) and the pulling of
\* the generator
__iter__(r, pages, fa, kind) == iterate(cursor_check_closed(r), <<>>, pages, fa, kind)

\* Connection.cursor(name) on a blocking connection: a new Cursor object
\* takes the place of the one the application held.
cursor(r, name) == [r EXCEPT !.cur = Cursor(name)]

(***************************************************************************)
(* History kept for the properties: the last call, and the BEGINs since    *)
(* the last commit/rollback point                                          *)
(***************************************************************************)
EndCommands == {"COMMIT", "ROLLBACK", "COMMIT PREPARED", "ROLLBACK PREPARED", "ABORT"}

\* Command i of the call was accepted by the server.
Accepted(r, i) == ~(r.failed /\ i = Len(r.sent))

\* ghost.begun: a BEGIN has been sent since the last commit/rollback point;
\* ghost.acked: and the server accepted one.
RECURSIVE Track(_, _, _)
Track(g, r, i) ==
    IF i > Len(r.sent) THEN g
    ELSE LET name == r.sent[i].cmd
             g1 == IF name = "BEGIN"
                   THEN [begun |-> TRUE, acked |-> g.acked \/ Accepted(r, i)]
                   ELSE IF name \in EndCommands /\ Accepted(r, i)
                   THEN [begun |-> FALSE, acked |-> FALSE]
                   ELSE g
         IN Track(g1, r, i + 1)

\* The record of a call: what was called and how it ended.
Called(op, arg, r) ==
    [op |-> op, arg |-> arg, exc |-> r.exc, sent |-> r.sent,
     failed |-> r.failed, marks |-> r.marks, finished |-> r.finished,
     got |-> r.got, cleared |-> r.cleared,
     res |-> r.res, ret |-> r.ret, stop |-> r.stop]

\* The frame r a method ends in becomes the new state of the objects.
Returns(r) ==
    /\ conn' = r.c
    /\ cur' = r.cur
    /\ ghost' = Track(ghost, r, 1)
    /\ UNCHANGED <<env, pq>>

Frame == Start(conn, cur)

\* env: how many notices have arrived since the connection was made; how the
\* most recent execute on the cursor ended ("none": there was none, "tuples":
\* it returned with a tuples result, "other"); whether the cursor has handed a
\* DECLARE to the server.
NoHistory == [nrecv |-> 0, lastexec |-> "none", declared |-> FALSE]

\* pq of a blocking connection: connected, nothing in flight.
PqBlocking ==
    [healthy |-> TRUE, connect_left |-> 0, iso |-> TRUE, inflight |-> FALSE,
     flush_left |-> 0, busy_left |-> 0, result |-> CommandOk(-1)]

(***************************************************************************)
(* Specification                                                           *)
(***************************************************************************)
\* Connection.__init__ and _connect_sync/_setup of a blocking connection,
\* and one cursor obtained from it.
Init ==
    /\ \E enc \in {"UTF8"} :
         conn = [status |-> STATUS_READY, tpc_xid |-> None, autocommit |-> FALSE,
                 closed |-> FALSE, async |-> FALSE, encoding |-> enc,
                 srv_isolation |-> ISOLATION_LEVEL_READ_COMMITTED,
                 pgconn |-> TRUE, notice_callback |-> TRUE, notices |-> <<>>,
                 async_status |-> ASYNC_DONE, async_cursor |-> None]
    /\ \E name \in {None, Some("c")} : cur = Cursor(name)
    /\ last = [op |-> "connect", arg |-> None, exc |-> "none", sent |-> <<>>,
               failed |-> FALSE, marks |-> 0, finished |-> FALSE, got |-> 0, cleared |-> 0,
               res |-> CommandOk(-1), ret |-> <<>>, stop |-> FALSE]
    /\ ghost = [begun |-> FALSE, acked |-> FALSE]
    /\ env = NoHistory
    /\ pq = PqBlocking

Commit ==
    \E f \in Fails(1) :
        LET r == commit(Frame, f[1], f[2]) IN
        last' = Called("commit", None, r) /\ Returns(r)

Rollback ==
    \E f \in Fails(1) :
        LET r == rollback(Frame, f[1], f[2]) IN
        last' = Called("rollback", None, r) /\ Returns(r)

Reset ==
    \E f \in Fails(1) :
        LET r == reset(Frame, f[1], f[2]) IN
        last' = Called("reset", None, r) /\ Returns(r)

\* The argument lists set_session is called with.
SessionCalls ==
    { SessionArgs(None, None, None, Some(TRUE)),
      SessionArgs(None, None, None, Some(FALSE)),
      SessionArgs(Some(ISOLATION_LEVEL_READ_UNCOMMITTED), None, None, None),
      SessionArgs(Some(5), None, None, Some(TRUE)),
      SessionArgs(Some(ISOLATION_LEVEL_READ_COMMITTED), Some(FALSE), Some(TRUE),
                  Some(TRUE)) }

SetSession ==
    \E a \in SessionCalls, f \in Fails(3) :
        LET r == set_session(Frame, a, f[1], f[2]) IN
        last' = Called("set_session", None, r) /\ Returns(r)

\* The autocommit property setter: self.set_session(autocommit=value)
SetAutocommit ==
    \E v \in BOOLEAN :
        LET r == set_session(Frame, SessionArgs(None, None, None, Some(v)), 0, "null") IN
        last' = Called("autocommit", None, r) /\ Returns(r)

SetIsolationLevel ==
    \E level \in LevelInputs, f \in Fails(3) :
        LET r == set_isolation_level(Frame, level, f[1], f[2]) IN
        last' = Called("set_isolation_level", Some(level), r) /\ Returns(r)

SetClientEncoding ==
    \E enc \in EncodingInputs, f \in Fails(2) :
        LET r == set_client_encoding(Frame, enc, f[1], f[2]) IN
        last' = Called("set_client_encoding", None, r) /\ Returns(r)

TpcBegin ==
    \E xid \in Xids, f \in Fails(1) :
        LET r == tpc_begin(Frame, xid, f[1], f[2]) IN
        last' = Called("tpc_begin", Some(xid), r) /\ Returns(r)

\* The xid argument of tpc_commit / tpc_rollback: absent, or an Xid.
XidArgs == {None} \cup {Some(x) : x \in Xids}

TpcCommit ==
    \E xid \in XidArgs, f \in Fails(1) :
        LET r == tpc_commit(Frame, xid, f[1], f[2]) IN
        last' = Called("tpc_commit", xid, r) /\ Returns(r)

TpcRollback ==
    \E xid \in XidArgs, f \in Fails(1) :
        LET r == tpc_rollback(Frame, xid, f[1], f[2]) IN
        last' = Called("tpc_rollback", xid, r) /\ Returns(r)

TpcPrepare ==
    \E f \in Fails(1) :
        LET r == tpc_prepare(Frame, f[1], f[2]) IN
        last' = Called("tpc_prepare", None, r) /\ Returns(r)

Close ==
    LET r == close(Frame) IN
    last' = Called("close", None, r) /\ Returns(r)

NewCursor ==
    \E name \in {None, Some("c")} :
        LET r == cursor(Frame, name) IN
        last' = Called("cursor", None, r) /\ Returns(r)

Execute ==
    \E perr \in {"none", "ValueError"}, f \in Fails(2) :
        LET r == execute(Frame, perr, f[1], f[2]) IN
        last' = Called("execute", None, r) /\ Returns(r)

Next ==
    \/ Commit
    \/ Rollback
    \/ Reset
    \/ SetSession
    \/ SetAutocommit
    \/ SetIsolationLevel
    \/ SetClientEncoding
    \/ TpcBegin
    \/ TpcCommit
    \/ TpcRollback
    \/ TpcPrepare
    \/ Close
    \/ NewCursor
    \/ Execute

Spec == Init /\ [][Next]_vars

(***************************************************************************)
(* Notices: the server's notices arrive through the notice processor       *)
(* registered on the handle, while the handle exists.                      *)
(***************************************************************************)
\* libpq calls the registered callback with the next message; messages are
\* numbered in arrival order.
Notice ==
    /\ conn.notice_callback /\ conn.pgconn
    /\ env.nrecv < MaxNotices
    /\ LET r == _process_notice(Frame, env.nrecv + 1) IN
       /\ last' = Called("notice", None, r)
       /\ conn' = r.c
       /\ env' = [env EXCEPT !.nrecv = @ + 1]
       /\ UNCHANGED <<cur, ghost, pq>>

NextNotices ==
    \/ Notice
    \/ Close
    \/ Commit

SpecNotices == Init /\ [][NextNotices]_vars

(***************************************************************************)
(* Properties.  In an action formula the unprimed variables are the state  *)
(* a call starts in, last' is the call and the primed variables are the    *)
(* state it ends in.  Calls on a closed connection are the subject of      *)
(* check_closed and are left out of the properties about transactions.     *)
(***************************************************************************)
InTpc == conn.tpc_xid # None
BeginSent(sent) == \E i \in 1 .. Len(sent) : sent[i].cmd = "BEGIN"
PlainOf(op) == IF op = "tpc_commit" THEN "COMMIT" ELSE "ROLLBACK"
PreparedOf(op) == IF op = "tpc_commit" THEN "COMMIT PREPARED" ELSE "ROLLBACK PREPARED"
TpcFinish == {"tpc_commit", "tpc_rollback"}

\* C1: whenever a TPC transaction id is stored, status is InTransaction
\* (STATUS_BEGIN) or Prepared.
C1_TpcImpliesInTransaction ==
    InTpc => conn.status \in {STATUS_BEGIN, STATUS_PREPARED}

\* C2: autocommit on and a TPC transaction open never hold together.
C2_AutocommitExcludesTpc == ~(conn.autocommit /\ InTpc)

\* C3: while a TPC transaction is open, commit() and rollback() raise
\* ProgrammingError, send nothing, and leave status and the stored xid as
\* they were.
C3_CommitRollbackRefusedInTpc ==
    [][ (last'.op \in {"commit", "rollback"} /\ InTpc /\ ~conn.closed)
        => /\ last'.exc = "ProgrammingError"
           /\ last'.sent = <<>>
           /\ conn'.status = conn.status
           /\ conn'.tpc_xid = conn.tpc_xid ]_vars

\* C3 witness: a commit() refused after tpc_prepare.
C3_Witness ==
    /\ last.op = "commit" /\ last.exc = "ProgrammingError"
    /\ InTpc /\ conn.status = STATUS_PREPARED /\ ~conn.closed

\* C4: tpc_begin succeeds only from Ready, autocommit off, no TPC transaction
\* open, and then status is InTransaction and the xid is stored; from every
\* other state it raises ProgrammingError, sends no BEGIN and leaves status
\* and the stored xid as they were.
C4_TpcBeginContract ==
    [][ (last'.op = "tpc_begin" /\ ~conn.closed)
        => LET pre == conn.status = STATUS_READY /\ ~conn.autocommit /\ ~InTpc IN
           /\ last'.exc = "none"
                => pre /\ conn'.status = STATUS_BEGIN /\ conn'.tpc_xid = last'.arg
           /\ ~pre
                => /\ last'.exc = "ProgrammingError"
                   /\ ~BeginSent(last'.sent)
                   /\ conn'.status = conn.status
                   /\ conn'.tpc_xid = conn.tpc_xid ]_vars

\* C5: tpc_commit() / tpc_rollback() without an xid: with the TPC transaction
\* not prepared (status InTransaction) exactly one plain COMMIT / ROLLBACK is
\* sent; with it prepared (status Prepared) exactly one COMMIT PREPARED /
\* ROLLBACK PREPARED with the token of the stored xid; with no TPC
\* transaction they raise ProgrammingError and send nothing.
C5_FinishOwnTransaction ==
    [][ (last'.op \in TpcFinish /\ last'.arg = None /\ ~conn.closed)
        => /\ (InTpc /\ conn.status = STATUS_BEGIN)
                => last'.sent = <<Cmd(PlainOf(last'.op))>>
           /\ (InTpc /\ conn.status = STATUS_PREPARED)
                => last'.sent = <<TpcCmd(PreparedOf(last'.op), as_tid(conn.tpc_xid[1]))>>
           /\ ~InTpc
                => last'.exc = "ProgrammingError" /\ last'.sent = <<>> ]_vars

\* C5 witness: tpc_commit() of a prepared transaction has sent COMMIT
\* PREPARED with a transaction token.
C5_Witness ==
    /\ last.op = "tpc_commit" /\ last.arg = None /\ last.exc = "none"
    /\ \E x \in Xids : last.sent = <<TpcCmd("COMMIT PREPARED", as_tid(x))>>

\* C6: after every successful tpc_commit / tpc_rollback, with or without an
\* xid argument, no TPC transaction is stored and status is Ready.
C6_FinishClearsTpc ==
    (last.op \in TpcFinish /\ last.exc = "none")
        => (conn.tpc_xid = None /\ conn.status = STATUS_READY)

\* C7: tpc_commit(xid) / tpc_rollback(xid) raise ProgrammingError and send
\* nothing whenever status is not Ready; from Ready they send exactly one
\* COMMIT PREPARED / ROLLBACK PREPARED for the given xid and status stays
\* Ready.
C7_FinishForeignTransaction ==
    [][ (last'.op \in TpcFinish /\ last'.arg # None /\ ~conn.closed)
        => /\ conn.status # STATUS_READY
                => last'.exc = "ProgrammingError" /\ last'.sent = <<>>
           /\ conn.status = STATUS_READY
                => /\ last'.sent = <<TpcCmd(PreparedOf(last'.op), as_tid(last'.arg[1]))>>
                   /\ conn'.status = STATUS_READY ]_vars

\* C7 witness: a recovery rollback of a given xid went through.
C7_Witness ==
    /\ last.op = "tpc_rollback" /\ last.arg # None /\ last.exc = "none"
    /\ Len(last.sent) = 1 /\ conn.status = STATUS_READY

\* C8: tpc_prepare() without a TPC transaction raises ProgrammingError and
\* leaves status as it was; with one it sends PREPARE TRANSACTION with the
\* stored xid's token and, returning normally, leaves status Prepared.  Status
\* becomes Prepared only in a tpc_prepare() that returns normally.
C8_PrepareContract ==
    [][ /\ (last'.op = "tpc_prepare" /\ ~conn.closed)
            => /\ ~InTpc
                    => /\ last'.exc = "ProgrammingError"
                       /\ last'.sent = <<>>
                       /\ conn'.status = conn.status
               /\ InTpc
                    => /\ last'.sent =
                            <<TpcCmd("PREPARE TRANSACTION", as_tid(conn.tpc_xid[1]))>>
                       /\ last'.exc = "none" => conn'.status = STATUS_PREPARED
        /\ (conn'.status = STATUS_PREPARED /\ conn.status # STATUS_PREPARED)
            => (last'.op = "tpc_prepare" /\ last'.exc = "none") ]_vars

\* C8 witness: a tpc_prepare() that went through.
C8_Witness ==
    /\ last.op = "tpc_prepare" /\ last.exc = "none"
    /\ conn.status = STATUS_PREPARED /\ InTpc

\* C9: with no TPC transaction open, commit() / rollback() outside
\* InTransaction send nothing and change nothing of the connection; in
\* InTransaction they send exactly one COMMIT / ROLLBACK and, returning
\* normally, leave status Ready.
C9_CommitRollbackContract ==
    [][ (last'.op \in {"commit", "rollback"} /\ ~InTpc /\ ~conn.closed)
        => /\ conn.status # STATUS_BEGIN
                => /\ last'.sent = <<>> /\ last'.exc = "none"
                   /\ conn' = conn /\ last'.marks = 0
           /\ conn.status = STATUS_BEGIN
                => /\ last'.sent =
                        <<Cmd(IF last'.op = "commit" THEN "COMMIT" ELSE "ROLLBACK")>>
                   /\ last'.exc = "none" => conn'.status = STATUS_READY ]_vars

\* C9 witness: a rollback() that ended a plain transaction.
C9_Witness ==
    /\ last.op = "rollback" /\ last.exc = "none"
    /\ last.sent = <<Cmd("ROLLBACK")>> /\ conn.status = STATUS_READY

\* What C10 says of one execute that hands anything to the server or
\* returns: BEGIN goes first exactly when status is Ready and autocommit is
\* off, nowhere else, and with autocommit on the status stays what it was
\* (Ready stays Ready).
ExecuteBegins ==
    (last'.op = "execute" /\ (last'.sent # <<>> \/ last'.exc = "none"))
        => /\ (last'.sent # <<>> /\ last'.sent[1].cmd = "BEGIN")
                <=> (conn.status = STATUS_READY /\ ~conn.autocommit)
           /\ \A i \in 2 .. Len(last'.sent) : last'.sent[i].cmd # "BEGIN"
           /\ conn.autocommit => conn'.status = conn.status

\* C10 as stated: an execute sends BEGIN first exactly when status is Ready
\* and autocommit is off, status then is InTransaction, and no BEGIN is sent
\* while another has been sent since the last commit/rollback point.
C10_AtMostOneBeginSent ==
    [][ /\ ExecuteBegins
        /\ (last'.op = "execute" /\ BeginSent(last'.sent))
                => conn'.status = STATUS_BEGIN
        /\ ghost.begun => ~BeginSent(last'.sent) ]_vars

\* C10 amended: an execute sends BEGIN first exactly when status is Ready and
\* autocommit is off; once the server has accepted the BEGIN status is
\* InTransaction, and no BEGIN is sent while an accepted one is outstanding
\* since the last commit/rollback point.
C10_AtMostOneBeginAccepted ==
    [][ /\ ExecuteBegins
        /\ (last'.op = "execute" /\ BeginSent(last'.sent)
            /\ ~(last'.failed /\ Len(last'.sent) = 1))
                => conn'.status = STATUS_BEGIN
        /\ ghost.acked => ~BeginSent(last'.sent) ]_vars

\* C10 witness: an execute that opened a transaction before its statement.
C10_Witness ==
    /\ last.op = "execute" /\ last.exc = "none"
    /\ last.sent = <<Cmd("BEGIN"), Cmd("QUERY")>>
    /\ conn.status = STATUS_BEGIN /\ ghost.acked

(***************************************************************************)
(* Cursors: one cursor of a blocking connection, its results and fetches.  *)
(***************************************************************************)
\* The results the server gives a statement.
Results ==
    {CommandOk(-1), CommandOk(1), EmptyQuery} \cup {TuplesOk(0, n) : n \in 0 .. MaxRows}

FrameWith(res) == [Frame EXCEPT !.res = res]

\* How many pages a consumer pulls from an iteration before it gives up.
MaxPages == MaxRows + 2

\* How an execute ended, for env.lastexec.
ExecOutcome(r) ==
    IF Ok(r) /\ r.res.st = "TUPLES_OK" /\ r.cur.name = None THEN "tuples" ELSE "other"

Declared(r) == \E i \in 1 .. Len(r.sent) : r.sent[i].cmd = "DECLARE"

AfterExecute(r) ==
    [env EXCEPT !.lastexec = ExecOutcome(r), !.declared = @ \/ Declared(r)]

ReturnsCursor(r, e) ==
    /\ conn' = r.c
    /\ cur' = r.cur
    /\ ghost' = Track(ghost, r, 1)
    /\ env' = e
    /\ UNCHANGED pq

\* The inputs of an execute: a parameter error is raised before anything is
\* sent, so the server's answer is enumerated only when there is none.
ExecInputs ==
    (Results \X {"none"} \X Fails(2))
        \cup {<<CommandOk(-1), "ValueError", <<0, "null">>>>}

CursorExecute ==
    \E i \in ExecInputs :
        LET r == execute(FrameWith(i[1]), i[2], i[3][1], i[3][2]) IN
        last' = Called("execute", None, r) /\ ReturnsCursor(r, AfterExecute(r))

Callproc ==
    \E res \in {TuplesOk(0, 1)}, f \in Fails(2) :
        LET r == callproc(FrameWith(res), "none", f[1], f[2]) IN
        last' = Called("callproc", None, r) /\ ReturnsCursor(r, AfterExecute(r))

ExecuteMany ==
    \E n \in {0, 2}, res \in {CommandOk(1)}, f \in Fails(2) :
        LET r == executemany(FrameWith(res), [i \in 1 .. n |-> Param(res, "none")],
                             f[1], f[2])
            executed == n >= 1 /\ Ok(cursor_check_async(cursor_check_closed(Frame)))
        IN last' = Called("executemany", Some(n), r)
           /\ ReturnsCursor(r, IF executed THEN AfterExecute(r) ELSE env)

FetchOne ==
    \E f \in Fails(1) :
        LET r == fetchone(Frame, f[1], f[2]) IN
        last' = Called("fetchone", None, r) /\ ReturnsCursor(r, env)

\* The size argument of fetchmany: absent, or a number.  A negative size is
\* given to unnamed cursors only: what FETCH FORWARD of a negative count
\* returns depends on the plan the server chose for the cursor.
SizeArgs == {None, Some(0), Some(2), Some(-1)}

FetchMany ==
    \E size \in SizeArgs, f \in Fails(1) :
        LET r == fetchmany(Frame, size, f[1], f[2]) IN
        /\ (size # None /\ size[1] < 0) => cur.name = None
        /\ last' = Called("fetchmany", size, r)
        /\ ReturnsCursor(r, env)

Fetchall ==
    \E f \in Fails(1) :
        LET r == fetchall(Frame, f[1], f[2]) IN
        last' = Called("fetchall", None, r) /\ ReturnsCursor(r, env)

\* cursor.arraysize = v
SetArraysize ==
    \E v \in {1, 2} :
        LET r == [Frame EXCEPT !.cur.arraysize = v] IN
        last' = Called("arraysize", None, r) /\ ReturnsCursor(r, env)

\* cursor.itersize = v
SetItersize ==
    \E v \in {1, DefaultItersize} :
        LET r == [Frame EXCEPT !.cur.itersize = v] IN
        last' = Called("itersize", None, r) /\ ReturnsCursor(r, env)

\* for row in cursor: ...
Iterate ==
    \E f \in Fails(1) :
        LET r == __iter__(Frame, MaxPages, f[1], f[2]) IN
        last' = Called("iterate", None, r) /\ ReturnsCursor(r, env)

CursorClose ==
    \E f \in Fails(1) :
        LET r == cursor_close(Frame, f[1], f[2]) IN
        last' = Called("cursor.close", None, r) /\ ReturnsCursor(r, env)

\* The application takes a new cursor from the connection.
OpenCursor ==
    \E name \in {None, Some("c")} :
        LET r == cursor(Frame, name) IN
        /\ last' = Called("cursor", None, r)
        /\ ReturnsCursor(r, [env EXCEPT !.lastexec = "none", !.declared = FALSE])

NextCursor ==
    \/ CursorExecute
    \/ Callproc
    \/ ExecuteMany
    \/ FetchOne
    \/ FetchMany
    \/ Fetchall
    \/ SetArraysize
    \/ SetItersize
    \/ Iterate
    \/ CursorClose
    \/ OpenCursor
    \/ Close

SpecCursor == Init /\ [][NextCursor]_vars

(***************************************************************************)
(* COPY ... FROM stdin: copy_from and the stream it sends                  *)
(***************************************************************************)
\* Cursor.copy_from(file, table): check_closed, check_async, then the COPY
\* statement goes to _pq_execute (no transaction is begun first).  file is
\* the sequence of chunks read(size) gives; putfail and final are what
\* PQputCopyData and the server do in this call.
copy_from(r, file, putfail, final, fa, kind) ==
    LET r0 == cursor_check_async(cursor_check_closed(r))
    IN IF ~Ok(r0) THEN r0
       ELSE _pq_execute([r0 EXCEPT !.copy.file = file, !.copy.putfail = putfail,
                                   !.copy.final = final],
                        Cmd("COPY"), fa, kind)

Chunks == {"a", "b"}
Files == UNION {[1 .. n -> Chunks] : n \in 0 .. MaxChunks}

CopyFrom ==
    \E file \in Files, putfail \in 0 .. MaxChunks, final \in {"none", "23"},
       res \in {CopyIn, FatalError("42")}, f \in Fails(1) :
        LET r == copy_from(FrameWith(res), file, putfail, final, f[1], f[2]) IN
        /\ last' = [Called("copy_from", Some(file), r) EXCEPT !.ret = <<r.copy>>]
        /\ ReturnsCursor(r, env)

NextCopy ==
    \/ CopyFrom
    \/ CursorClose
    \/ Close

SpecCopy == Init /\ [][NextCopy]_vars

(***************************************************************************)
(* Non-blocking connections: poll() and the query on its way.  pq is the   *)
(* libpq handle: healthy (the server answers), connect_left (PQconnectPoll *)
(* calls still needed), iso (the server's DateStyle is ISO), inflight (a   *)
(* query was sent and its result not taken), flush_left and busy_left      *)
(* (PQflush and PQisBusy calls still needed), result (of that query).      *)
(***************************************************************************)
\* Connection._poll_connecting: PQconnectPoll mapped to a POLL_ value; a
\* failed attempt raises.
_poll_connecting(r) ==
    IF ~r.pq.healthy THEN Raise(r, "OperationalError")
    ELSE IF r.pq.connect_left > 0
    THEN [r EXCEPT !.pq.connect_left = @ - 1, !.ret = Some(POLL_READ)]
    ELSE [r EXCEPT !.ret = Some(POLL_OK)]

\* Connection._poll_advance_write(PQflush(pgconn))
_poll_advance_write(r) ==
    IF ~r.pq.healthy THEN Raise(r, "OperationalError")
    ELSE IF PQflush(r) = 0
    THEN [r EXCEPT !.c.async_status = ASYNC_READ, !.ret = Some(POLL_READ)]
    ELSE [PQflushed(r) EXCEPT !.ret = Some(POLL_WRITE)]

\* Connection._poll_advance_read(self._is_busy()): _is_busy raises when
\* PQconsumeInput fails; PQisBusy is 1 while the result is not all there.
_poll_advance_read(r) ==
    IF ~r.pq.healthy THEN Raise(r, "OperationalError")
    ELSE IF r.pq.inflight /\ r.pq.busy_left > 0
    THEN [r EXCEPT !.pq.busy_left = @ - 1, !.ret = Some(POLL_READ)]
    ELSE [r EXCEPT !.c.async_status = ASYNC_DONE, !.ret = Some(POLL_OK)]

\* Connection._poll_query
_poll_query(r) ==
    IF r.c.async_status = ASYNC_WRITE THEN _poll_advance_write(r)
    ELSE IF r.c.async_status \in {ASYNC_READ, ASYNC_DONE} THEN _poll_advance_read(r)
    ELSE [r EXCEPT !.ret = Some(POLL_ERROR)]

\* Connection._poll_setup_async
_poll_setup_async(r) ==
    IF r.c.status = STATUS_CONNECTING
    THEN LET r0 == [r EXCEPT !.c.autocommit = TRUE] IN
         IF ~r0.pq.iso
         THEN LET r1 == [r0 EXCEPT !.c.status = STATUS_DATESTYLE,
                                   !.res = CommandOk(-1),
                                   !.net = [flush |-> 0, busy |-> 0]]
              IN IF PQsendQueryOk(r1)
                 THEN [PQsendQuery([r1 EXCEPT !.sent = Append(@, Cmd("SET DATESTYLE"))])
                          EXCEPT !.c.async_status = ASYNC_WRITE,
                                 !.ret = Some(POLL_WRITE)]
                 ELSE Raise(r1, "OperationalError")
         ELSE [r0 EXCEPT !.c.status = STATUS_READY, !.ret = Some(POLL_OK)]
    ELSE IF r.c.status = STATUS_DATESTYLE
    THEN LET r0 == _poll_query(r) IN
         IF ~Ok(r0) \/ r0.ret # Some(POLL_OK) THEN r0
         ELSE IF ~r0.pq.inflight \/ r0.pq.result.st # "COMMAND_OK"
         THEN Raise([r0 EXCEPT !.pq.inflight = FALSE], "OperationalError")
         ELSE [r0 EXCEPT !.pq.inflight = FALSE, !.pq.iso = TRUE,
                         !.c.status = STATUS_READY, !.ret = Some(POLL_OK)]
    ELSE [r EXCEPT !.ret = Some(POLL_ERROR)]

\* The result poll hands to the cursor that waits: util.pq_get_last_result
\* takes what the query on its way produced (nothing if there is none) and
\* curs._pq_fetch() reads it.  The waiting cursor is the one the application
\* holds ("held") or one it held before ("other", whose fields are not kept).
poll_fetch(r) ==
    LET pgres == IF r.pq.inflight THEN Some(r.pq.result) ELSE None
        r0 == [r EXCEPT !.pq.inflight = FALSE]
        r1 == _pq_fetch([PQclear(r0) EXCEPT
                            !.cur.pgres = pgres,
                            !.got = IF pgres = None THEN @ ELSE @ + 1])
    IN IF r.c.async_cursor = Some("held") THEN r1
       ELSE IF Ok(r1) THEN r0 ELSE Raise(r0, r1.exc)

\* Connection.poll
poll(r) ==
    IF r.c.status = STATUS_SETUP
    THEN [r EXCEPT !.c.status = STATUS_CONNECTING, !.ret = Some(POLL_WRITE)]
    ELSE IF r.c.status = STATUS_CONNECTING
    THEN LET r0 == _poll_connecting(r) IN
         IF Ok(r0) /\ r0.ret = Some(POLL_OK) /\ r0.c.async
         THEN _poll_setup_async(r0) ELSE r0
    ELSE IF r.c.status \in {STATUS_READY, STATUS_BEGIN, STATUS_PREPARED}
    THEN LET r0 == _poll_query(r) IN
         IF Ok(r0) /\ r0.ret = Some(POLL_OK) /\ r0.c.async /\ r0.c.async_cursor # None
         THEN IF r0.c.async_cursor = Some("gone")
              THEN Raise([r0 EXCEPT !.pq.inflight = FALSE], "InterfaceError")
              ELSE LET r1 == poll_fetch(r0) IN
                   IF Ok(r1) THEN [r1 EXCEPT !.c.async_cursor = None] ELSE r1
         ELSE r0
    ELSE [r EXCEPT !.ret = Some(POLL_ERROR)]

\* Connection.isexecuting
isexecuting(c) ==
    IF ~c.async THEN FALSE
    ELSE IF c.status # STATUS_READY THEN TRUE
    ELSE c.async_cursor # None

\* How many more calls the network needs for a query that is sent.
Nets == [flush : 0 .. 1, busy : 0 .. 1]

\* The results of a statement on a non-blocking connection.
AsyncResults == {TuplesOk(0, 1), CommandOk(1), FatalError("42")}

\* A call on a non-blocking connection: the objects, the handle, and what the
\* server and the network will do with a query the call sends.
AsyncFrame(res, net) == [FrameWith(res) @@ [pq |-> pq, net |-> net] EXCEPT !.ret = None]

ReturnsAsync(r) ==
    /\ conn' = r.c
    /\ cur' = r.cur
    /\ pq' = r.pq
    /\ ghost' = Track(ghost, r, 1)
    /\ UNCHANGED env

\* connect(dsn, async=1): Connection.__init__ with _connect_async
InitAsync ==
    /\ conn = [status |-> STATUS_SETUP, tpc_xid |-> None, autocommit |-> FALSE,
               closed |-> FALSE, async |-> TRUE, encoding |-> "UTF8",
               srv_isolation |-> ISOLATION_LEVEL_READ_COMMITTED,
               pgconn |-> TRUE, notice_callback |-> TRUE, notices |-> <<>>,
               async_status |-> ASYNC_DONE, async_cursor |-> None]
    /\ cur = Cursor(None)
    /\ last = [op |-> "connect", arg |-> None, exc |-> "none", sent |-> <<>>,
               failed |-> FALSE, marks |-> 0, finished |-> FALSE, got |-> 0, cleared |-> 0,
               res |-> CommandOk(-1), ret |-> <<>>, stop |-> FALSE]
    /\ ghost = [begun |-> FALSE, acked |-> FALSE]
    /\ env = NoHistory
    /\ \E h \in BOOLEAN, n \in 0 .. 1, iso \in BOOLEAN :
         pq = [PqBlocking EXCEPT !.healthy = h, !.connect_left = n, !.iso = iso]

Poll ==
    LET r == poll(AsyncFrame(CommandOk(-1), [flush |-> 0, busy |-> 0])) IN
    last' = Called("poll", None, r) /\ ReturnsAsync(r)

AsyncExecute ==
    \E res \in AsyncResults, net \in Nets, f \in Fails(1) :
        LET r == execute(AsyncFrame(res, net), "none", f[1], f[2]) IN
        last' = Called("execute", None, r) /\ ReturnsAsync(r)

\* connection.autocommit = v
AsyncSetAutocommit ==
    \E v \in BOOLEAN :
        LET r == set_session(AsyncFrame(CommandOk(-1), [flush |-> 0, busy |-> 0]),
                             SessionArgs(None, None, None, Some(v)), 0, "null")
        IN last' = Called("autocommit", Some(v), r) /\ ReturnsAsync(r)

\* The application takes a new cursor; the cursor it held stays alive
\* elsewhere or is collected, which is what a weak reference to it sees.
AsyncOpenCursor ==
    \E alive \in BOOLEAN :
        LET r0 == cursor(AsyncFrame(CommandOk(-1), [flush |-> 0, busy |-> 0]), None)
            r == IF conn.async_cursor = Some("held")
                 THEN [r0 EXCEPT !.c.async_cursor =
                                    IF alive THEN Some("other") ELSE Some("gone")]
                 ELSE r0
        IN last' = Called("cursor", None, r) /\ ReturnsAsync(r)

NextAsync ==
    \/ Poll
    \/ AsyncExecute
    \/ AsyncSetAutocommit
    \/ AsyncOpenCursor

SpecAsync == InitAsync /\ [][NextAsync]_vars

\* An application that submits a query only when the connection records no
\* waiting cursor, and then keeps calling poll(): a call of poll() that would
\* change anything is made sooner or later.
OneAtATime == conn.async_cursor = None /\ AsyncExecute

NextPoll ==
    \/ Poll
    \/ OneAtATime
    \/ AsyncSetAutocommit
    \/ AsyncOpenCursor

SpecPoll == InitAsync /\ [][NextPoll]_vars /\ WF_vars(Poll)

(***************************************************************************)
(* The cursor after an execute: rowcount and description of each result.   *)
(***************************************************************************)
\* Fields as libpq describes them: an int4, a numeric(10,2) (type modifier
\* ((10 << 16) | 2) + 4), and a numeric without modifier.
FieldTypes ==
    {[ftype |-> 23, fsize |-> 4, fmod |-> -1],
     [ftype |-> NUMERIC, fsize |-> -1, fmod |-> 655366],
     [ftype |-> NUMERIC, fsize |-> -1, fmod |-> -1]}

ColumnSets == UNION {[1 .. k -> FieldTypes] : k \in 0 .. MaxCols}

DescribedResults ==
    {CommandOk(-1), CommandOk(0), CommandOk(2), EmptyQuery, TuplesOk(0, 0)}
        \cup {TuplesOkCols(0, 1, cols) : cols \in ColumnSets}

DescribeExecute ==
    \E res \in DescribedResults, f \in Fails(2) :
        LET r == execute(FrameWith(res), "none", f[1], f[2]) IN
        last' = Called("execute", None, r) /\ ReturnsCursor(r, AfterExecute(r))

NextDescribe ==
    \/ DescribeExecute
    \/ OpenCursor
    \/ Rollback

SpecDescribe == Init /\ [][NextDescribe]_vars

(***************************************************************************)
(* executemany over paramlists whose elements differ.                      *)
(***************************************************************************)
Params ==
    {Param(CommandOk(-1), "none"), Param(CommandOk(1), "none"),
     Param(CommandOk(1), "ValueError"),
     Param(CommandOk(1), "ZeroDivisionError")}

Paramlists == UNION {[1 .. k -> Params] : k \in 0 .. MaxParams}

\* The server rejects none of the commands of the call, or one of them.
ManyFails == {<<0, "null">>} \cup {<<i, "42">> : i \in 1 .. MaxParams + 1}

ManyExecute ==
    \E plan \in Paramlists, f \in ManyFails :
        LET r == executemany(Frame, plan, f[1], f[2]) IN
        last' = Called("executemany", Some(plan), r) /\ ReturnsCursor(r, env)

NextMany ==
    \/ ManyExecute
    \/ Rollback
    \/ SetAutocommit
    \/ OpenCursor

SpecMany == Init /\ [][NextMany]_vars

(***************************************************************************)
(* Combining a query template with its parameters.  Strings are sequences  *)
(* of characters, positions count from 0 as in the code.                   *)
(***************************************************************************)
\* Python's s.find(ch, start, end): the first position in start .. end - 1
\* that holds ch, -1 if there is none; a negative end counts from the end
\* of s.
Find(s, ch, start, end) ==
    LET stop == IF end < 0 THEN Len(s) + end ELSE end
        hits == {i \in start .. stop - 1 : i < Len(s) /\ s[i + 1] = ch}
    IN IF hits = {} THEN -1 ELSE CHOOSE i \in hits : \A j \in hits : i <= j

\* Parameters: a tuple of values or a dict from names to values.
Tuple(vals) == [kind |-> "tuple", vals |-> vals, map |-> <<>>]
Dict(map) == [kind |-> "dict", vals |-> <<>>, map |-> map]

\* adapters._getquoted: the SQL literal of a value.  An int is its digits
\* (Int.getquoted), a str is put between quotes (QuotedString.getquoted; the
\* strings of the model need no escaping).
_getquoted(param) ==
    IF param.type = "str" THEN <<"'">> \o param.chars \o <<"'">> ELSE param.chars

\* The result of a function that returns a string or raises.
Out(exc, out) == [exc |-> exc, out |-> out]

\* Python's  fmt % args  on a str, for format strings without flags, widths
\* and precisions: i is the position in fmt, argidx the number of arguments
\* used, out what has been rendered.
RECURSIVE KeyEnd(_, _, _)
KeyEnd(fmt, j, depth) ==
    IF j >= Len(fmt) THEN -1
    ELSE IF fmt[j + 1] = ")" THEN IF depth = 1 THEN j ELSE KeyEnd(fmt, j + 1, depth - 1)
    ELSE IF fmt[j + 1] = "(" THEN KeyEnd(fmt, j + 1, depth + 1)
    ELSE KeyEnd(fmt, j + 1, depth)

RECURSIVE PyFormat(_, _, _, _, _)
PyFormat(fmt, args, i, argidx, out) ==
    IF i >= Len(fmt)
    THEN IF args.kind = "tuple" /\ argidx < Len(args.vals)
         THEN Out("TypeError", <<>>) ELSE Out("none", out)
    ELSE IF fmt[i + 1] # "%" THEN PyFormat(fmt, args, i + 1, argidx, Append(out, fmt[i + 1]))
    ELSE IF i + 1 >= Len(fmt) THEN Out("ValueError", <<>>)
    ELSE IF fmt[i + 2] = "("
    THEN IF args.kind # "dict" THEN Out("TypeError", <<>>)
         ELSE LET end == KeyEnd(fmt, i + 2, 1)
                  key == SubSeq(fmt, i + 3, end)
              IN IF end < 0 THEN Out("ValueError", <<>>)
                 ELSE IF key \notin DOMAIN args.map THEN Out("KeyError", <<>>)
                 ELSE IF end + 1 >= Len(fmt) THEN Out("ValueError", <<>>)
                 ELSE IF fmt[end + 2] = "s"
                 THEN PyFormat(fmt, args, end + 2, argidx, out \o args.map[key])
                 ELSE IF fmt[end + 2] = "%"
                 THEN PyFormat(fmt, args, end + 2, argidx, Append(out, "%"))
                 ELSE Out("ValueError", <<>>)
    ELSE IF fmt[i + 2] = "%" THEN PyFormat(fmt, args, i + 2, argidx, Append(out, "%"))
    ELSE IF fmt[i + 2] = "s"
    THEN IF args.kind = "dict" THEN PyFormat(fmt, args, i + 2, argidx, Append(out, "{}"))
         ELSE IF argidx >= Len(args.vals) THEN Out("TypeError", <<>>)
         ELSE PyFormat(fmt, args, i + 2, argidx + 1, out \o args.vals[argidx + 1])
    ELSE Out("ValueError", <<>>)

\* check_format_char of _combine_cmd_params: the character is in 's '.
check_format_char(format_char) == format_char \in {"s", " "}

\* The while loop of _combine_cmd_params.  named_args_format is "None",
\* "True" or "False"; arg_values is None, a list (positional) or a dict
\* (named).  The result is the exception raised or the loop's variables.
Scanned(exc, arg_values, named_args_format) ==
    [exc |-> exc, arg_values |-> arg_values, named_args_format |-> named_args_format]

RECURSIVE _combine_loop(_, _, _, _, _, _)
_combine_loop(cmd, params, idx, param_num, arg_values, named_args_format) ==
    IF idx >= Len(cmd) THEN Scanned("none", arg_values, named_args_format)
    ELSE IF cmd[idx + 1] # "%"
    THEN _combine_loop(cmd, params, idx + 1, param_num, arg_values, named_args_format)
    ELSE IF idx + 1 >= Len(cmd) THEN Scanned("IndexError", arg_values, named_args_format)
    ELSE IF cmd[idx + 2] = "%"
    THEN _combine_loop(cmd, params, idx + 2, param_num, arg_values, named_args_format)
    ELSE IF cmd[idx + 2] = "("
    THEN IF named_args_format = "False"
         THEN Scanned("ValueError", arg_values, named_args_format)
         ELSE LET max_lookahead == Find(cmd, "%", idx + 2, Len(cmd))
                  end == Find(cmd, ")", idx + 2, max_lookahead)
                  key == SubSeq(cmd, idx + 3, end)
                  values == IF arg_values = None THEN Dict(<<>>) ELSE arg_values[1]
              IN IF end < 0 THEN Scanned("ProgrammingError", arg_values, "True")
                 ELSE IF key \notin DOMAIN values.map /\ params.kind # "dict"
                 THEN Scanned("TypeError", arg_values, "True")
                 ELSE IF key \notin DOMAIN values.map /\ key \notin DOMAIN params.map
                 THEN Scanned("KeyError", arg_values, "True")
                 ELSE IF ~check_format_char(cmd[end + 2])
                 THEN Scanned("ValueError", arg_values, "True")
                 ELSE _combine_loop(cmd, params, idx + 1, param_num,
                          Some(IF key \in DOMAIN values.map THEN values
                               ELSE Dict(values.map @@ (key :> _getquoted(params.map[key])))),
                          "True")
    ELSE IF named_args_format = "True"
    THEN Scanned("ValueError", arg_values, named_args_format)
    ELSE IF ~check_format_char(cmd[idx + 2]) THEN Scanned("ValueError", arg_values, "False")
    ELSE IF params.kind = "dict" THEN Scanned("KeyError", arg_values, "False")
    ELSE IF param_num >= Len(params.vals) THEN Scanned("IndexError", arg_values, "False")
    ELSE LET values == IF arg_values = None THEN Tuple(<<>>) ELSE arg_values[1]
         IN _combine_loop(cmd, params, idx + 2, param_num + 1,
                Some(Tuple(Append(values.vals, _getquoted(params.vals[param_num + 1])))),
                "False")

\* Python's  not arg_values: None, or an empty list or dict.
Falsy(arg_values) ==
    \/ arg_values = None
    \/ arg_values[1].kind = "tuple" /\ arg_values[1].vals = <<>>
    \/ arg_values[1].kind = "dict" /\ DOMAIN arg_values[1].map = {}

\* Variant of _combine_cmd_params that returns the query as it is when the
\* loop found no placeholder.
_combine_cmd_params_raw(cmd, params) ==
    IF \A i \in 1 .. Len(cmd) : cmd[i] # "%" THEN Out("none", cmd)
    ELSE LET l == _combine_loop(cmd, params, 0, 0, None, "None") IN
         IF l.exc # "none" THEN Out(l.exc, <<>>)
         ELSE IF l.named_args_format = "False"
                 /\ Len(l.arg_values[1].vals) # Len(params.vals)
         THEN Out("TypeError", <<>>)
         ELSE IF Falsy(l.arg_values) THEN Out("none", cmd)
         ELSE PyFormat(cmd, l.arg_values[1], 0, 0, <<>>)

\* cursor._combine_cmd_params(cmd, params, conn)
_combine_cmd_params(cmd, params) ==
    IF \A i \in 1 .. Len(cmd) : cmd[i] # "%" THEN Out("none", cmd)
    ELSE LET l == _combine_loop(cmd, params, 0, 0, None, "None") IN
         IF l.exc # "none" THEN Out(l.exc, <<>>)
         ELSE IF l.named_args_format = "False"
                 /\ Len(l.arg_values[1].vals) # Len(params.vals)
         THEN Out("TypeError", <<>>)
         ELSE IF Falsy(l.arg_values) THEN PyFormat(cmd, Tuple(<<>>), 0, 0, <<>>)
         ELSE PyFormat(cmd, l.arg_values[1], 0, 0, <<>>)

\* The pieces templates are made of: the escape, the placeholders, plain
\* text, and three broken pieces (an unsupported format character, a
\* placeholder without its closing parenthesis, a lone percent sign).
GoodTokens ==
    {<<"%", "%">>, <<"%", "s">>, <<"%", "(", "k", ")", "s">>,
     <<"%", "(", "j", ")", "s">>, <<"s">>}

Tokens == GoodTokens \cup {<<"%", "k">>, <<"%", "(", "k">>, <<"%">>}

\* A template is not empty.
Templates == UNION {[1 .. n -> Tokens] : n \in 1 .. MaxTokens}

RECURSIVE Flatten(_)
Flatten(tokens) ==
    IF tokens = <<>> THEN <<>> ELSE Head(tokens) \o Flatten(Tail(tokens))

\* The values: the int 1 and the str '%s'.
One == [type |-> "int", chars |-> <<"1">>]
Pct == [type |-> "str", chars |-> <<"%", "s">>]

ParamSets ==
    {Tuple(<<>>), Tuple(<<One>>), Tuple(<<Pct>>), Tuple(<<One, Pct>>),
     Dict(<<>>), Dict(<<"k">> :> Pct), Dict(<<"k">> :> One @@ <<"j">> :> Pct)}

\* last.arg in this specification: the template and the parameters the
\* application works with, and what _combine_cmd_params made of them in the
\* last call (None when the call passed no parameters).
Input(tokens, params, combined) ==
    Some([tokens |-> tokens, params |-> params, combined |-> combined])

\* A blocking connection as Connection.__init__ and _connect_sync leave it.
Connected ==
    [status |-> STATUS_READY, tpc_xid |-> None, autocommit |-> FALSE,
     closed |-> FALSE, async |-> FALSE, encoding |-> "UTF8",
     srv_isolation |-> ISOLATION_LEVEL_READ_COMMITTED,
     pgconn |-> TRUE, notice_callback |-> TRUE, notices |-> <<>>,
     async_status |-> ASYNC_DONE, async_cursor |-> None]

\* The record of the call that made the connection.
Connect(arg) ==
    [op |-> "connect", arg |-> arg, exc |-> "none", sent |-> <<>>,
     failed |-> FALSE, marks |-> 0, finished |-> FALSE, got |-> 0, cleared |-> 0, res |-> CommandOk(-1),
     ret |-> <<>>, stop |-> FALSE]

InitFormat ==
    /\ conn = Connected
    /\ cur = Cursor(None)
    /\ ghost = [begun |-> FALSE, acked |-> FALSE]
    /\ env = NoHistory
    /\ pq = PqBlocking
    /\ \E tokens \in Templates, params \in ParamSets :
         last = Connect(Input(tokens, params, None))

\* cursor.execute(query, parameters)
FormatExecute ==
    LET i == last.arg[1]
        combined == _combine_cmd_params(Flatten(i.tokens), i.params)
        r == execute(Frame, combined.exc, 0, "null")
    IN /\ last' = Called("execute", Input(i.tokens, i.params, Some(combined)), r)
       /\ ReturnsCursor(r, AfterExecute(r))

\* cursor.execute(query): no parameters, the query is sent as it is.
PlainExecute ==
    LET i == last.arg[1]
        r == execute(Frame, "none", 0, "null")
    IN /\ last' = Called("execute", Input(i.tokens, i.params, None), r)
       /\ ReturnsCursor(r, AfterExecute(r))

FormatRollback ==
    LET i == last.arg[1]
        r == rollback(Frame, 0, "null")
    IN last' = Called("rollback", Input(i.tokens, i.params, None), r) /\ Returns(r)

NextFormat ==
    \/ FormatExecute
    \/ PlainExecute
    \/ FormatRollback

SpecFormat == InitFormat /\ [][NextFormat]_vars

(***************************************************************************)
(* Adapters: the registry of the adapters module and adapt().              *)
(***************************************************************************)
\* The method resolution order of the classes of the model: str and a
\* subclass of it; A, B(A), C(B); X and M(X, B); "instance" is the type of
\* every instance of an old-style class.
mro(type) ==
    CASE type = "object" -> <<"object">>
      [] type = "str" -> <<"str", "basestring", "object">>
      [] type = "Sub" -> <<"Sub", "str", "basestring", "object">>
      [] type = "A" -> <<"A", "object">>
      [] type = "B" -> <<"B", "A", "object">>
      [] type = "C" -> <<"C", "B", "A", "object">>
      [] type = "X" -> <<"X", "object">>
      [] type = "M" -> <<"M", "X", "B", "A", "object">>
      [] type = "instance" -> <<"instance", "object">>

\* The values handed to adapt: their type, and the adapter their
\* __conform__ returns if they have one.
AdaptValues ==
    [type : {"Sub", "A", "B", "C", "M", "instance"}, conform : {None, Some("conformed")}]

\* The registry after the module is loaded (the built-in adapters).
built_in_adapters == "str" :> "QuotedString"

\* Variant of adapt that looks up the exact type only.
adapt_exact_type(adapters, value) ==
    IF value.type \in DOMAIN adapters THEN Out("none", adapters[value.type])
    ELSE IF value.conform # None THEN Out("none", value.conform[1])
    ELSE Out("ProgrammingError", "none")

\* adapters.adapt(value) with the default protocol: the adapter class that
\* wraps the value, or the exception raised.
adapt(adapters, value) ==
    LET obj_type == value.type
        chain == Tail(mro(obj_type))
        hits == {i \in 1 .. Len(chain) : chain[i] \in DOMAIN adapters}
    IN IF obj_type \in DOMAIN adapters THEN Out("none", adapters[obj_type])
       ELSE IF hits # {}
       THEN Out("none", adapters[chain[CHOOSE i \in hits : \A j \in hits : i <= j]])
       ELSE IF value.conform # None THEN Out("none", value.conform[1])
       ELSE Out("ProgrammingError", "none")

\* env.adapters is the registry; the other variables are those of a fresh
\* connection.
InitAdapt ==
    /\ conn = Connected
    /\ cur = Cursor(None)
    /\ last = Connect(None)
    /\ ghost = [begun |-> FALSE, acked |-> FALSE]
    /\ env = NoHistory @@ [adapters |-> built_in_adapters]
    /\ pq = PqBlocking

\* register_adapter(typ, callable): adapters[(typ, ISQLQuote)] = callable
RegisterAdapter ==
    \E typ \in {"A", "B", "X"}, callable \in {"a", "b"} :
        /\ env' = [env EXCEPT !.adapters = (typ :> callable) @@ @]
        /\ last' = Called("register_adapter", Some(typ), Frame)
        /\ UNCHANGED <<conn, cur, ghost, pq>>

Adapt ==
    \E value \in AdaptValues :
        LET a == adapt(env.adapters, value) IN
        /\ last' = Called("adapt", Some(value),
                          [Frame EXCEPT !.exc = a.exc, !.ret = <<a.out>>])
        /\ UNCHANGED <<conn, cur, ghost, env, pq>>

NextAdapt ==
    \/ RegisterAdapter
    \/ Adapt

SpecAdapt == InitAdapt /\ [][NextAdapt]_vars

(***************************************************************************)
(* Typecasters: string_types of the typecasts module and the _typecasts    *)
(* of two connections and their cursors.                                   *)
(***************************************************************************)
Conns == {"conn1", "conn2"}
Cursors == {"cur1", "cur1b", "cur2"}

\* cursor._conn
ConnOf(csr) == IF csr = "cur2" THEN "conn2" ELSE "conn1"

\* The type id of the UNKNOWN typecaster.
UnknownOid == 705

\* The type objects the application registers: new_type((23,), "MYINT", f)
\* and new_type((23, 2950), "PAIR", f).
TypeObjs == {[name |-> "MYINT", values |-> {23}], [name |-> "PAIR", values |-> {23, 2950}]}

\* string_types after the module is loaded: INTEGER for 23, UNKNOWN for 705
\* (the defaults the model needs), nothing for 2950.
DefaultTypes == (23 :> "INTEGER") @@ (UnknownOid :> "UNKNOWN")

\* typecasts.register_type(type_obj, scope): the registries afterwards, or
\* the exception.  scope is "none", a connection, a cursor, or anything
\* else.
register_type(casts, type_obj, scope) ==
    LET typecasts == IF scope = "none" THEN "string_types"
                     ELSE IF scope \in Conns \cup Cursors THEN scope
                     ELSE "none"
    IN IF typecasts = "none" /\ type_obj.values # {} THEN Out("TypeError", casts)
       ELSE IF typecasts = "none" THEN Out("none", casts)
       ELSE Out("none",
                [casts EXCEPT ![typecasts] =
                    [value \in type_obj.values |-> type_obj.name] @@ @])

\* Variant of Cursor._get_cast that asks the connection before the cursor.
_get_cast_connection_first(casts, csr, oid) ==
    IF oid \in DOMAIN casts[ConnOf(csr)] THEN casts[ConnOf(csr)][oid]
    ELSE IF oid \in DOMAIN casts[csr] THEN casts[csr][oid]
    ELSE IF oid \in DOMAIN casts["string_types"] THEN casts["string_types"][oid]
    ELSE casts["string_types"][UnknownOid]

\* Cursor._get_cast(oid)
_get_cast(casts, csr, oid) ==
    IF oid \in DOMAIN casts[csr] THEN casts[csr][oid]
    ELSE IF oid \in DOMAIN casts[ConnOf(csr)] THEN casts[ConnOf(csr)][oid]
    ELSE IF oid \in DOMAIN casts["string_types"] THEN casts["string_types"][oid]
    ELSE casts["string_types"][UnknownOid]

\* env.casts holds string_types and the _typecasts of every connection and
\* cursor, empty when the object is made.
InitCasts ==
    /\ conn = Connected
    /\ cur = Cursor(None)
    /\ last = Connect(None)
    /\ ghost = [begun |-> FALSE, acked |-> FALSE]
    /\ env = NoHistory @@
             [casts |-> [scope \in {"string_types"} \cup Conns \cup Cursors |->
                           IF scope = "string_types" THEN DefaultTypes ELSE <<>>]]
    /\ pq = PqBlocking

RegisterType ==
    \E type_obj \in TypeObjs, scope \in {"none", "3"} \cup Conns \cup Cursors :
        LET out == register_type(env.casts, type_obj, scope) IN
        /\ env' = [env EXCEPT !.casts = out.out]
        /\ last' = Called("register_type", Some([type_obj |-> type_obj, scope |-> scope]),
                          [Frame EXCEPT !.exc = out.exc])
        /\ UNCHANGED <<conn, cur, ghost, pq>>

\* A cursor chooses the typecaster of a field (_pq_fetch_tuples, cast).
GetCast ==
    \E csr \in Cursors, oid \in {23, 2950} :
        /\ last' = Called("_get_cast", Some([cursor |-> csr, oid |-> oid]),
                          [Frame EXCEPT !.ret = <<_get_cast(env.casts, csr, oid)>>])
        /\ UNCHANGED <<conn, cur, ghost, env, pq>>

NextCasts ==
    \/ RegisterType
    \/ GetCast

SpecCasts == InitCasts /\ [][NextCasts]_vars

(***************************************************************************)
(* Arrays: the text the server sends for an array and parse_array.         *)
(***************************************************************************)
\* Python values: None, a str, an int, a list.
PyNone == [t |-> "None", chars |-> <<>>, n |-> 0, items |-> <<>>]
PyStr(chars) == [t |-> "str", chars |-> chars, n |-> 0, items |-> <<>>]
PyInt(n) == [t |-> "int", chars |-> <<>>, n |-> n, items |-> <<>>]
PyList(items) == [t |-> "list", chars |-> <<>>, n |-> 0, items |-> items]

\* A null element as the text spells it (NULL in some letter case).
SqlNull(chars) == [t |-> "null", chars |-> chars, n |-> 0, items |-> <<>>]

\* str.lower on the letters of the model.
Lower(chars) ==
    [i \in 1 .. Len(chars) |->
        CASE chars[i] = "N" -> "n" [] chars[i] = "U" -> "u" [] chars[i] = "L" -> "l"
          [] OTHER -> chars[i]]

\* The decimal text of the small numbers of the model.
DigitChars == <<"0", "1", "2", "3", "4", "5", "6", "7", "8", "9">>
Digits(n) == IF n < 10 THEN <<DigitChars[n + 1]>> ELSE <<"1", DigitChars[n - 9]>>

\* The element text of an array as the server writes it: a null is the
\* bare word, a string is put in double quotes, with a backslash before each
\* quote and backslash, when it is empty, spells null, or holds a brace, a
\* comma, a quote, a backslash or a space.
RECURSIVE Escaped(_)
Escaped(chars) ==
    IF chars = <<>> THEN <<>>
    ELSE (IF Head(chars) \in {"\"", "\\"} THEN <<"\\", Head(chars)>> ELSE <<Head(chars)>>)
            \o Escaped(Tail(chars))

NeedsQuotes(chars) ==
    \/ chars = <<>>
    \/ Lower(chars) = <<"n", "u", "l", "l">>
    \/ \E i \in 1 .. Len(chars) : chars[i] \in {"{", "}", ",", "\"", "\\", " "}

RECURSIVE ArrayOut(_)
ArrayOut(v) ==
    IF v.t = "null" THEN v.chars
    ELSE IF v.t = "int" THEN Digits(v.n)
    ELSE IF v.t = "str"
    THEN IF NeedsQuotes(v.chars) THEN <<"\"">> \o Escaped(v.chars) \o <<"\"">> ELSE v.chars
    ELSE LET RECURSIVE Join(_)
             Join(items) ==
                 IF items = <<>> THEN <<>>
                 ELSE IF Len(items) = 1 THEN ArrayOut(items[1])
                 ELSE ArrayOut(items[1]) \o <<",">> \o Join(Tail(items))
         IN <<"{">> \o Join(v.items) \o <<"}">>

\* What a decoder returns: the value, or the exception raised.
Cast(exc, val) == [exc |-> exc, val |-> val]

\* parse_string
parse_string(value) == Cast("none", value)

\* Python's int(value): None is a TypeError, a text that is not a number a
\* ValueError.
RECURSIVE IntOf(_, _)
IntOf(chars, acc) ==
    IF chars = <<>> THEN acc
    ELSE IntOf(Tail(chars),
               10 * acc + (CHOOSE d \in 0 .. 9 : Digits(d) = <<Head(chars)>>))

\* parse_integer
parse_integer(value) ==
    IF value.t = "None" THEN Cast("TypeError", PyNone)
    ELSE IF value.chars = <<>>
            \/ \E i \in 1 .. Len(value.chars) :
                  \A d \in 0 .. 9 : Digits(d) # <<value.chars[i]>>
    THEN Cast("ValueError", PyNone)
    ELSE Cast("none", PyInt(IntOf(value.chars, 0)))

\* typecasts.typecast(caster, value, length, cursor) for the STRING and
\* INTEGER type objects.
typecast(caster, value) ==
    IF caster = "INTEGER" THEN parse_integer(value) ELSE parse_string(value)

\* The inner loop of parse_array.__call__: the characters of one element.
\* The result is the position after the element and its text.
RECURSIVE parse_array_element(_, _, _, _, _)
parse_array_element(s, i, quotes, escape_char, buf) ==
    IF i >= Len(s) - 1 THEN [i |-> i, buf |-> buf]
    ELSE IF escape_char
    THEN parse_array_element(s, i + 1, quotes, FALSE, Append(buf, s[i + 1]))
    ELSE IF s[i + 1] = "\"" THEN parse_array_element(s, i + 1, quotes + 1, FALSE, buf)
    ELSE IF s[i + 1] = "\\" THEN parse_array_element(s, i + 1, quotes, TRUE, buf)
    ELSE IF quotes % 2 = 0 /\ s[i + 1] \in {"}", ","} THEN [i |-> i, buf |-> buf]
    ELSE parse_array_element(s, i + 1, quotes, FALSE, Append(buf, s[i + 1]))

\* The value parse_array makes of the text of one element.
parse_array_value(caster, str_buf) ==
    IF Len(str_buf) = 4 /\ Lower(str_buf) = <<"n", "u", "l", "l">>
    THEN typecast(caster, PyNone)
    ELSE typecast(caster, PyStr(str_buf))

\* The outer loop of parse_array.__call__.  stack holds the arrays that are
\* open, the innermost last; a sub-array is part of its parent from the
\* moment it is opened (the parent holds a reference to it), which the
\* model writes into the parent when the sub-array is closed.
RECURSIVE parse_array_loop(_, _, _, _)
parse_array_loop(caster, s, i, stack) ==
    IF i >= Len(s) - 1
    THEN LET RECURSIVE Fold(_)
             Fold(st) ==
                 IF Len(st) = 1 THEN st[1]
                 ELSE Fold(Append(SubSeq(st, 1, Len(st) - 2),
                                  Append(st[Len(st) - 1], PyList(st[Len(st)]))))
         IN Cast("none", PyList(Fold(stack)))
    ELSE IF s[i + 1] = "{" THEN parse_array_loop(caster, s, i + 1, Append(stack, <<>>))
    ELSE IF s[i + 1] = "}"
    THEN IF Len(stack) = 1 THEN Cast("IndexError", PyNone)
         ELSE parse_array_loop(caster, s, i + 1,
                  Append(SubSeq(stack, 1, Len(stack) - 2),
                         Append(stack[Len(stack) - 1], PyList(stack[Len(stack)]))))
    ELSE IF s[i + 1] \in {",", " "} THEN parse_array_loop(caster, s, i + 1, stack)
    ELSE LET e == parse_array_element(s, i, 0, FALSE, <<>>)
             val == parse_array_value(caster, e.buf)
         IN IF val.exc # "none" THEN Cast(val.exc, PyNone)
            ELSE parse_array_loop(caster, s, e.i,
                     [stack EXCEPT ![Len(stack)] = Append(@, val.val)])

\* parse_array(caster).__call__(value, length, cursor)
parse_array(caster, s) ==
    IF s = <<>> \/ s[1] # "{" \/ s[Len(s)] # "}" THEN Cast("AssertionError", PyNone)
    ELSE parse_array_loop(caster, s, 1, <<<<>>>>)

\* The elements of text arrays and of integer arrays.
StringElems ==
    {PyStr(<<"a">>), PyStr(<<"N", "U", "L", "L">>), PyStr(<<"a", "\"", "\\">>),
     PyStr(<<",", "{", "}">>), SqlNull(<<"N", "U", "L", "L">>),
     SqlNull(<<"n", "U", "l", "L">>)}

IntegerElems == {PyInt(1), PyInt(12), SqlNull(<<"N", "U", "L", "L">>)}

Lists(elems) == UNION {[1 .. k -> elems] : k \in 0 .. MaxElems}

\* The elements of sub-arrays.
SubElems(elems) ==
    elems \cap {PyStr(<<"a">>), PyInt(1), SqlNull(<<"N", "U", "L", "L">>)}

\* The arrays: flat ones, arrays of one or two sub-arrays, and one of depth
\* three.
Arrays(elems) ==
    LET subs == {PyList(items) : items \in Lists(SubElems(elems)) \ {<<>>}} IN
    {PyList(items) : items \in Lists(elems)}
        \cup {PyList(outer) : outer \in UNION {[1 .. k -> subs] : k \in 1 .. 2}}
        \cup {PyList(<<PyList(<<PyList(<<e>>)>>)>>) : e \in elems}

ArrayInputs ==
    {[caster |-> "STRING", array |-> a] : a \in Arrays(StringElems)}
        \cup {[caster |-> "INTEGER", array |-> a] : a \in Arrays(IntegerElems)}

\* last.arg is the array the server holds and the type object of its
\* elements.
InitArrays ==
    /\ conn = Connected
    /\ cur = Cursor(None)
    /\ \E a \in ArrayInputs : last = Connect(Some(a))
    /\ ghost = [begun |-> FALSE, acked |-> FALSE]
    /\ env = NoHistory
    /\ pq = PqBlocking

\* A field holding the array is decoded.
ParseArray ==
    LET a == last.arg[1]
        out == parse_array(a.caster, ArrayOut(a.array))
    IN /\ last.op = "connect"
       /\ last' = Called("parse_array", last.arg,
                         [Frame EXCEPT !.exc = out.exc, !.ret = <<out.val>>])
       /\ UNCHANGED <<conn, cur, ghost, env, pq>>

NextArrays == ParseArray

SpecArrays == InitArrays /\ [][NextArrays]_vars

(***************************************************************************)
(* The handle of a connection from PQconnectdb to PQfinish.                *)
(***************************************************************************)
\* Connection.__init__ with _connect_sync: the connection is made ("ok"),
\* PQconnectdb gives a handle in CONNECTION_BAD ("bad") or no handle
\* ("null").  In the last two cases __init__ raises OperationalError before
\* the notice callback is registered and the status is left at SETUP.
InitHandle ==
    /\ \E outcome \in {"ok", "bad", "null"} :
         /\ conn = [Connected EXCEPT
                      !.pgconn = (outcome # "null"),
                      !.status = IF outcome = "ok" THEN STATUS_READY ELSE STATUS_SETUP,
                      !.notice_callback = (outcome = "ok")]
         /\ last = [Connect(None) EXCEPT
                      !.exc = IF outcome = "ok" THEN "none" ELSE "OperationalError"]
    /\ cur = Cursor(None)
    /\ ghost = [begun |-> FALSE, acked |-> FALSE]
    /\ env = NoHistory
    /\ pq = PqBlocking

\* The application holds the connection: __init__ returned it and it has
\* not been destroyed.
Alive == last.op # "__del__" /\ ~(last.op = "connect" /\ last.exc # "none")

\* Connection.__del__: runs once, when the object is destroyed.
Del ==
    /\ last.op # "__del__"
    /\ LET r == _close(Frame) IN
       last' = Called("__del__", None, r) /\ Returns(r)

NextHandle ==
    \/ Alive /\ Close
    \/ Alive /\ Execute
    \/ Alive /\ Commit
    \/ Alive /\ Reset
    \/ Alive /\ SetClientEncoding
    \/ Del

SpecHandle == InitHandle /\ [][NextHandle]_vars

(***************************************************************************)
(* Transaction ids and their tokens.                                       *)
(***************************************************************************)
\* All strings over chars of at most n characters.
Strings(chars, n) == UNION {[1 .. k -> chars] : k \in 0 .. n}

\* Characters of a gtrid or bqual: the first and the last printable
\* character, a letter and the underscore.
XidChars == {32, 97, 127, Underscore}

\* The gtrids and bquals: the strings of at most n characters, and strings around the length
\* where the base64 text gets a second line, and of the greatest length.
XidStrs(n) ==
    Strings(XidChars, n)
        \cup {[i \in 1 .. k |-> 97] : k \in {MAXBINSIZE - 1, MAXBINSIZE,
                                             MAXBINSIZE + 1, MaxXidStr}}

FormatIds == {0, 42, MaxFormatId}

\* Characters of a token: a digit, the underscore, a letter of the base64
\* alphabet and the pad.
TokenChars == {52, Underscore, 90, Pad}

\* s with the character c put in before position i.
Insert(s, i, c) == SubSeq(s, 1, i - 1) \o <<c>> \o SubSeq(s, i, Len(s))

\* The strings handed to from_string: the strings over TokenChars of at
\* most n characters,
\* and the token of (42, "a", "q") with a newline, a "!", a digit, an
\* underscore, a pad or a letter put in at any place.
TokenStrings(n) ==
    Strings(TokenChars, n)
        \cup LET t == as_tid(Xid(42, <<97>>, <<113>>))
             IN {Insert(t, i, c) : i \in 1 .. Len(t) + 1,
                                   c \in {Newline, 33, 48, Underscore, Pad, 90}}

XidInputs(n, m) ==
    {[xid |-> Some(<<f, g, b>>), s |-> <<>>] :
        f \in FormatIds, g \in XidStrs(n), b \in XidStrs(n)}
        \cup {[xid |-> None, s |-> t] : t \in TokenStrings(m)}

\* last.arg holds the components given to Xid(), or the string given to
\* Xid.from_string.
InitXid ==
    /\ conn = Connected
    /\ cur = Cursor(None)
    /\ \E a \in XidInputs(MaxXidChars, MaxTokenChars) : last = Connect(Some(a))
    /\ ghost = [begun |-> FALSE, acked |-> FALSE]
    /\ env = NoHistory
    /\ pq = PqBlocking

\* str() of the Xid made from the components.
AsTid ==
    LET a == last.arg[1]
    IN /\ last.op = "connect"
       /\ a.xid # None
       /\ last' = Called("as_tid", Some([a EXCEPT !.s = as_tid(Xid(a.xid[1][1], a.xid[1][2], a.xid[1][3]))]),
                         [Frame EXCEPT !.ret = <<as_tid(Xid(a.xid[1][1], a.xid[1][2], a.xid[1][3]))>>])
       /\ UNCHANGED <<conn, cur, ghost, env, pq>>

\* Xid.from_string of the string at hand.
FromString ==
    LET a == last.arg[1]
    IN /\ \/ last.op = "connect" /\ a.xid = None
          \/ last.op = "as_tid"
       /\ last' = Called("from_string", last.arg,
                         [Frame EXCEPT !.ret = <<from_string(a.s)>>])
       /\ UNCHANGED <<conn, cur, ghost, env, pq>>

\* str() of the Xid from_string returned.
Str ==
    /\ last.op = "from_string"
    /\ last' = Called("str", last.arg,
                      [Frame EXCEPT !.ret = <<last.ret[1], as_tid(last.ret[1])>>])
    /\ UNCHANGED <<conn, cur, ghost, env, pq>>

NextXid == AsTid \/ FromString \/ Str

SpecXid == InitXid /\ [][NextXid]_vars

(***************************************************************************)
(* Commands rejected with the SQLSTATEs a server gives them.               *)
(***************************************************************************)
Sqlstates == {"23", "42", "44000", "0A000", "57014", "40001", "40P01", "22012", "53100"}

\* What the server can answer a command it rejects: any statement error for
\* a statement (no constraint is checked when a cursor is declared), a
\* cancel or a resource error for BEGIN and ROLLBACK, and for COMMIT also a
\* serialization failure or a deferred constraint; "null" is no result.
Rejections(name) ==
    {"null"} \cup
        (IF name = "QUERY" THEN Sqlstates
         ELSE IF name = "DECLARE" THEN Sqlstates \ {"23"}
         ELSE IF name = "COMMIT" THEN {"57014", "53100", "40001", "23"}
         ELSE {"57014", "53100"})

ErrFails == {<<0, "null">>} \cup ((1 .. 2) \X ({"null"} \cup Sqlstates))

\* The call ended as the server can make it end.
Rejected(r, f) ==
    IF r.failed THEN f[2] \in Rejections(r.sent[Len(r.sent)].cmd)
    ELSE f = <<0, "null">>

\* last.arg of an execute: the SQLSTATE the server was to answer, the
\* parameter error, and what the call before it was when that was a
\* rollback that returned.
ErrExecute ==
    \E res \in {CommandOk(1), TuplesOk(0, 1)}, perr \in {"none", "ValueError"},
       f \in ErrFails :
        LET r == execute(FrameWith(res), perr, f[1], f[2]) IN
        /\ Rejected(r, f)
        /\ perr # "none" => res = CommandOk(1)
        /\ last' = Called("execute",
                          Some([code |-> f[2], perr |-> perr,
                                follows |-> IF last.op = "rollback" /\ last.exc = "none"
                                            THEN last.arg[1].after ELSE "none"]), r)
        /\ ReturnsCursor(r, AfterExecute(r))

ErrCommit ==
    \E f \in ErrFails :
        LET r == commit(Frame, f[1], f[2]) IN
        /\ Rejected(r, f)
        /\ last' = Called("commit", Some([code |-> f[2]]), r) /\ Returns(r)

\* last.arg of a rollback: the SQLSTATE the server was to answer, and how
\* the call before it ended when that was an execute whose statement the
\* server rejected.
ErrRollback ==
    \E f \in ErrFails :
        LET r == rollback(Frame, f[1], f[2]) IN
        /\ Rejected(r, f)
        /\ last' = Called("rollback",
                          Some([code |-> f[2],
                                after |-> IF last.op = "execute" /\ last.failed
                                             /\ last.sent[Len(last.sent)].cmd = "QUERY"
                                          THEN last.exc ELSE "none"]), r)
        /\ Returns(r)

NextErrors ==
    \/ ErrExecute
    \/ ErrCommit
    \/ ErrRollback
    \/ SetAutocommit

SpecErrors == Init /\ [][NextErrors]_vars

Min(a, b) == IF a < b THEN a ELSE b

\* C11 as stated: close() on a closed connection returns without raising and
\* leaves the connection as it was.
C11_CloseIdempotent ==
    [][ (last'.op = "close" /\ conn.closed)
        => (last'.exc = "none" /\ conn' = conn) ]_vars

\* C11 amended: close() on a closed connection raises InterfaceError, hands
\* nothing to libpq and leaves the connection in the same closed state: no
\* handle, no notices, no notice callback.
C11_SecondCloseRaises ==
    [][ (last'.op = "close" /\ conn.closed)
        => /\ last'.exc = "InterfaceError"
           /\ ~last'.finished /\ last'.sent = <<>>
           /\ conn' = conn
           /\ ~conn'.pgconn /\ conn'.notices = <<>> /\ ~conn'.notice_callback ]_vars

\* C11 witness: a second close() on a connection that had received notices.
C11_Witness ==
    /\ last.op = "close" /\ last.exc = "InterfaceError"
    /\ conn.closed /\ env.nrecv > 0 /\ conn.notices = <<>>

\* C12: on a closed connection cursor.execute, connection.commit() and
\* connection.close() raise InterfaceError and hand nothing to libpq.
C12_ClosedConnectionRefuses ==
    [][ (conn.closed /\ last'.op \in {"execute", "commit", "close"})
        => /\ last'.exc = "InterfaceError"
           /\ last'.sent = <<>>
           /\ ~last'.finished ]_vars

\* C12 witness: an execute refused on an open cursor of a closed connection.
C12_Witness ==
    /\ last.op = "execute" /\ last.exc = "InterfaceError"
    /\ conn.closed /\ ~cur.closed

\* C14: on an open connection that has received n notices, notices holds the
\* last min(n, 50) of them in arrival order.
C14_NoticesAreLastFifty ==
    ~conn.closed
        => LET n == env.nrecv
               len == Min(n, NoticesKept)
           IN /\ Len(conn.notices) = len
              /\ \A i \in 1 .. len : conn.notices[i] = n - len + i

\* C14 witness: more than 50 notices have arrived and 50 are held.
C14_Witness ==
    /\ ~conn.closed /\ env.nrecv > NoticesKept
    /\ Len(conn.notices) = NoticesKept

\* Cursor.closed: "self._closed or self._conn.closed"
CursorClosed == cur.closed \/ conn.closed

\* The cursor methods that run a statement or read its rows.
CursorUses ==
    {"execute", "executemany", "callproc", "fetchone", "fetchmany", "fetchall"}

Declares(sent) == {i \in 1 .. Len(sent) : sent[i].cmd = "DECLARE"}

Fetches == {"fetchone", "fetchmany", "fetchall"}

\* C17: a named cursor sends DECLARE at most once in its life, whether the
\* server accepted it or not: once it has been sent, no call sends another,
\* and execute on the open cursor raises ProgrammingError and sends nothing.
\* Fetches do not count: they leave the stored query alone, and the fetches
\* the server serves after an accepted DECLARE return normally.
C17_NamedCursorExecutesOnce ==
    [][(cur.name # None /\ last'.op # "cursor")
         => /\ Cardinality(Declares(last'.sent)) <= (IF env.declared THEN 0 ELSE 1)
            /\ (env.declared /\ ~CursorClosed /\ last'.op = "execute")
                 => (last'.exc = "ProgrammingError" /\ last'.sent = <<>>)
            /\ last'.op \in Fetches
                 => /\ cur'.query = cur.query
                    /\ env'.declared = env.declared
                    /\ (~CursorClosed /\ cur.portal # None /\ ~last'.failed)
                         => last'.exc = "none"]_vars

\* C17 happens: the server rejected the DECLARE of the open named cursor, and
\* the next execute was refused without anything being sent.
C17_Witness ==
    /\ cur.name # None /\ ~CursorClosed
    /\ env.declared /\ cur.portal = None
    /\ last.op = "execute" /\ last.exc = "ProgrammingError" /\ last.sent = <<>>

\* C18: on an open unnamed cursor fetchone, fetchmany and fetchall raise
\* ProgrammingError unless the most recent execute produced a tuple result;
\* after a result of zero rows they return nothing (None, or an empty list)
\* and rowcount is 0.
C18_FetchNeedsTuples ==
    [][(cur.name = None /\ ~CursorClosed /\ last'.op \in Fetches)
         => /\ env.lastexec # "tuples" => last'.exc = "ProgrammingError"
            /\ (env.lastexec = "tuples" /\ cur.rowcount = 0)
                 => (last'.exc = "none" /\ last'.ret = <<>> /\ cur'.rowcount = 0)]_vars

\* The cursor holds the N rows its most recent execute produced, and rowcount
\* is N (executemany assigns rowcount without running a statement when its
\* list of parameters is empty).
HoldsRows ==
    /\ env.lastexec = "tuples"
    /\ cur.pgres # None
    /\ cur.rowcount = cur.pgres[1].n

\* C19: on an open unnamed cursor whose most recent execute produced N rows,
\* the execute leaves the row pointer at 0 and rowcount at N, and every
\* fetchone, fetchmany (size given or taken from arraysize) and fetchall
\* returns normally the consecutive rows from the row pointer on (one row, the
\* asked number or all that are left), moves the pointer past them and leaves
\* rowcount alone; with no rows left it returns nothing.
C19_FetchesPartitionRows ==
    [][/\ (cur.name = None /\ last'.op \in {"execute", "callproc"}
            /\ env'.lastexec = "tuples")
            => (cur'.rownumber = 0 /\ cur'.rowcount = last'.res.n)
       /\ (cur.name = None /\ ~CursorClosed /\ HoldsRows /\ last'.op \in Fetches)
            => LET left == cur.rowcount - cur.rownumber
                   k == IF last'.op = "fetchone" THEN 1
                        ELSE IF last'.op = "fetchall" THEN left
                        ELSE IF last'.arg = None THEN cur.arraysize
                        ELSE last'.arg[1]
                   want == IF k < 0 \/ k > left THEN left ELSE k
               IN /\ last'.exc = "none"
                  /\ last'.ret = [i \in 1 .. want |-> cur.rownumber + i - 1]
                  /\ cur'.rownumber = cur.rownumber + want
                  /\ cur'.rownumber <= cur.rowcount
                  /\ cur'.rowcount = cur.rowcount]_vars

\* C19 happens: after one row was fetched from a result of three, fetchmany
\* returned the other two and the result is exhausted.
C19_Witness ==
    /\ cur.name = None /\ ~CursorClosed /\ HoldsRows
    /\ last.op = "fetchmany" /\ last.exc = "none"
    /\ last.ret = <<1, 2>>
    /\ cur.rowcount = 3 /\ cur.rownumber = 3

\* C20: iterating an open cursor right after an execute that returned N rows
\* yields rows 0 .. N-1, each once and in order, and then stops, whatever
\* itersize is and for unnamed and named cursors alike (unless the server
\* fails a FETCH of the named cursor).
C20_IterationYieldsEachRowOnce ==
    [][(/\ last.op = "execute" /\ last.exc = "none" /\ last.res.st = "TUPLES_OK"
        /\ ~CursorClosed
        /\ last'.op = "iterate" /\ ~last'.failed)
         => /\ last'.exc = "none"
            /\ last'.stop
            /\ last'.ret = [i \in 1 .. last.res.n |-> i - 1]]_vars

\* C15: on a non-blocking connection whose server answers, poll() alone
\* completes the setup: while the SET of the date style is being absorbed
\* (status STATUS_DATESTYLE) a poll() neither raises nor returns POLL_ERROR,
\* and a poll() that returns POLL_OK leaves the connection past its setup.
C15_PollCompletesSetup ==
    [][(last'.op = "poll" /\ pq.healthy)
         => /\ conn.status = STATUS_DATESTYLE
                 => (last'.exc = "none" /\ last'.ret # Some(POLL_ERROR))
            /\ (last'.exc = "none" /\ last'.ret = Some(POLL_OK))
                 => conn'.status \in {STATUS_READY, STATUS_BEGIN, STATUS_PREPARED}]_vars

\* A query is pending: it was submitted for a cursor and poll() has not taken
\* its result.
Pending == pq.inflight /\ conn.async_cursor # None

\* C16: on a non-blocking connection, execute on an open cursor while a query
\* is pending raises ProgrammingError and leaves the connection's waiting
\* cursor and the state of the query on its way as they were.
C16_OneQueryOutstanding ==
    [][(conn.async /\ Pending /\ ~CursorClosed /\ last'.op = "execute")
         => /\ last'.exc = "ProgrammingError"
            /\ conn'.async_cursor = conn.async_cursor
            /\ conn'.async_status = conn.async_status
            /\ pq'.inflight]_vars

\* The names of the fields of a description entry.
ColumnFields ==
    {"name", "type_code", "display_size", "internal_size", "precision", "scale",
     "null_ok"}

\* The call handed the statement cmd to the server and got its result.
Answered(l, cmd) ==
    /\ ~l.failed
    /\ \E i \in 1 .. Len(l.sent) : l.sent[i].cmd = cmd

\* C21: after an execute whose statement the server answered, the cursor is as
\* the result's status says.  Command-ok (every DECLARE of a named cursor is):
\* description None, rowcount the count of the command tag or -1 when it has
\* none, result handle dropped.  Tuples-ok: rowcount the number of rows, row
\* pointer 0, description one entry of seven fields per column, carrying the
\* column's type.  Empty query: ProgrammingError.
C21_ExecuteSetsCursorState ==
    [][(last'.op = "execute" /\ ~CursorClosed)
         => /\ (cur.name = None /\ Answered(last', "QUERY"))
                 => LET res == last'.res IN
                    /\ res.st = "COMMAND_OK"
                         => /\ last'.exc = "none"
                            /\ cur'.description = None
                            /\ cur'.rowcount = res.n
                            /\ cur'.pgres = None
                    /\ res.st = "TUPLES_OK"
                         => /\ last'.exc = "none"
                            /\ cur'.rowcount = res.n
                            /\ cur'.rownumber = 0
                            /\ cur'.description # None
                            /\ Len(cur'.description[1]) = Len(res.cols)
                            /\ \A i \in 1 .. Len(res.cols) :
                                 /\ DOMAIN cur'.description[1][i] = ColumnFields
                                 /\ cur'.description[1][i].type_code = res.cols[i].ftype
                    /\ res.st = "EMPTY_QUERY" => last'.exc = "ProgrammingError"
            /\ (cur.name # None /\ Answered(last', "DECLARE"))
                 => /\ last'.exc = "none"
                    /\ cur'.description = None
                    /\ cur'.rowcount = -1
                    /\ cur'.pgres = None]_vars

\* C21 happens: an execute returned one row of two columns, the second a
\* numeric(10,2), and the cursor describes both.
C21_Witness ==
    /\ last.op = "execute" /\ last.exc = "none" /\ last.res.st = "TUPLES_OK"
    /\ cur.rowcount = 1 /\ cur.rownumber = 0
    /\ cur.description # None
    /\ Len(cur.description[1]) = 2
    /\ cur.description[1][2].precision = Some(10)
    /\ cur.description[1][2].scale = Some(2)

\* What the i-th execute of a paramlist leaves in rowcount.
RowcountOf(plan, i) == plan[i].res.n

RECURSIVE SumRowcounts(_, _)
SumRowcounts(plan, k) == IF k = 0 THEN 0 ELSE SumRowcounts(plan, k - 1) + RowcountOf(plan, k)

\* C22: after an executemany that completes on an unnamed cursor, rowcount is
\* -1 if any of the executions left rowcount -1, and otherwise the sum of the
\* rowcounts of the executions (0 for an empty paramlist).
C22_ExecutemanyRowcount ==
    [][(last'.op = "executemany" /\ last'.exc = "none" /\ cur.name = None)
         => LET plan == last'.arg[1] IN
            cur'.rowcount =
                IF \E i \in 1 .. Len(plan) : RowcountOf(plan, i) = -1 THEN -1
                ELSE SumRowcounts(plan, Len(plan))]_vars

\* The statements (not BEGIN) among the commands of a call.
Statements(sent) == {i \in 1 .. Len(sent) : sent[i].cmd \in {"QUERY", "DECLARE"}}

\* The call's BEGIN was accepted by the server.
BeginAccepted(l) ==
    /\ Len(l.sent) >= 1
    /\ l.sent[1].cmd = "BEGIN"
    /\ (Len(l.sent) > 1 \/ ~l.failed)

\* The elements of a paramlist that raise before a statement is made.
Raising(plan) == {i \in 1 .. Len(plan) : plan[i].perr # "none"}

\* C23: in an executemany on an open cursor, the first element that raises,
\* from the paramlist or from combining it with the query, ends the call with
\* its exception after exactly the statements of the elements before it; a
\* command the server rejects ends the call with an exception too.  A call
\* that raised has sent no ROLLBACK, and has left the status InTransaction if
\* it was so before or the call began a transaction, and as it was otherwise.
C23_ExecutemanyPropagates ==
    [][(last'.op = "executemany" /\ ~CursorClosed)
         => LET plan == last'.arg[1]
                q == Cardinality(Statements(last'.sent))
            IN /\ last'.failed => last'.exc # "none"
               /\ Raising(plan) # {}
                    => LET k == CHOOSE i \in Raising(plan) :
                                    \A j \in Raising(plan) : i <= j
                       IN /\ last'.exc # "none"
                          /\ q <= k - 1
                          /\ (cur.name = None /\ ~last'.failed)
                               => (last'.exc = plan[k].perr /\ q = k - 1)
               /\ last'.exc # "none"
                    => /\ \A i \in 1 .. Len(last'.sent) : last'.sent[i].cmd # "ROLLBACK"
                       /\ conn'.status =
                            IF conn.status = STATUS_BEGIN \/ BeginAccepted(last')
                            THEN STATUS_BEGIN ELSE conn.status]_vars

\* C23 happens: the second element of a paramlist raised after the first was
\* executed in a transaction the call began, which stays open.
C23_Witness ==
    /\ last.op = "executemany" /\ last.exc = "ZeroDivisionError"
    /\ Len(last.arg[1]) = 2
    /\ last.sent = <<Cmd("BEGIN"), Cmd("QUERY")>>
    /\ conn.status = STATUS_BEGIN /\ ~conn.autocommit

\* The statement of the last execute was rejected by the server.
StatementRejected(l) ==
    l.op = "execute" /\ l.failed /\ l.sent[Len(l.sent)].cmd = "QUERY"

\* C24: when an execute on a connection that is not in autocommit raises
\* IntegrityError for its statement, the connection is still in a
\* transaction; a rollback() then sends ROLLBACK and leaves the status ready,
\* and a following execute on the same cursor sends BEGIN and its statement
\* and returns.
C24_RollbackRecoversFromIntegrityError ==
    [][/\ (StatementRejected(last) /\ last.exc = "IntegrityError" /\ ~conn.autocommit)
            => /\ conn.status = STATUS_BEGIN
               /\ (last'.op = "rollback" /\ ~last'.failed)
                    => /\ last'.exc = "none"
                       /\ last'.sent = <<Cmd("ROLLBACK")>>
                       /\ conn'.status = STATUS_READY
       /\ (/\ last.op = "rollback" /\ last.exc = "none"
           /\ last.arg[1].after = "IntegrityError"
           /\ ~last.failed /\ ~conn.autocommit
           /\ last'.op = "execute" /\ last'.arg[1].perr = "none" /\ ~last'.failed)
            => /\ last'.exc = "none"
               /\ last'.sent = <<Cmd("BEGIN"), Cmd("QUERY")>>
               /\ conn'.status = STATUS_BEGIN
               /\ cur'.rowcount = last'.res.n]_vars

\* An execute returned in a new transaction after the rollback() that
\* followed an IntegrityError.
C24_Witness ==
    /\ last.op = "execute" /\ last.exc = "none"
    /\ last.arg[1].follows = "IntegrityError"
    /\ last.sent = <<Cmd("BEGIN"), Cmd("QUERY")>>
    /\ conn.status = STATUS_BEGIN

\* The SQLSTATE codes the table is stated for, and the kind stated for each.
StatedKind(code) ==
    CASE code = "23" -> "IntegrityError"
      [] code = "42" -> "ProgrammingError"
      [] code = "44000" -> "ProgrammingError"
      [] code = "0A000" -> "NotSupportedError"
      [] code = "57014" -> "QueryCanceledError"
      [] code = "40001" -> "TransactionRollbackError"

StatedCodes == {"23", "42", "44000", "0A000", "57014", "40001"}

\* C25: an error result is raised as the kind its SQLSTATE selects (class 23
\* IntegrityError, 42 and 44 ProgrammingError, 0A NotSupportedError, 57014 and
\* 40001 their own operational kinds), for every command that execute, commit
\* and rollback have rejected.
C25_ErrorsFollowSqlstateTable ==
    /\ \A code \in StatedCodes : get_exception_for_sqlstate(code) = StatedKind(code)
    /\ (/\ last.op \in {"execute", "commit", "rollback"} /\ last.failed
        /\ last.arg[1].code \in StatedCodes)
         => last.exc = StatedKind(last.arg[1].code)

\* The placeholders of a template made of whole pieces.
Positional == <<"%", "s">>
Named == {<<"%", "(", "k", ")", "s">>, <<"%", "(", "j", ")", "s">>}
WellFormed(tokens) == \A i \in 1 .. Len(tokens) : tokens[i] \in GoodTokens
Has(tokens, set) == \E i \in 1 .. Len(tokens) : tokens[i] \in set
Count(tokens, set) == Cardinality({i \in 1 .. Len(tokens) : tokens[i] \in set})

\* The call was an execute that passed parameters.
Substituted(l) == l.op = "execute" /\ l.arg[1].combined # None

\* C26: an execute whose template has both a %s and a %(name)s placeholder,
\* in either order, raises from the substitution; no command, not even
\* BEGIN, is sent, and the connection is as it was.
C26_MixedPlaceholdersRaiseBeforeSending ==
    [][(/\ Substituted(last')
        /\ WellFormed(last'.arg[1].tokens)
        /\ Has(last'.arg[1].tokens, {Positional})
        /\ Has(last'.arg[1].tokens, Named))
         => /\ last'.exc # "none"
            /\ last'.exc = last'.arg[1].combined[1].exc
            /\ last'.sent = <<>>
            /\ conn' = conn]_vars

\* A template with a named placeholder before a positional one was refused
\* inside a transaction, which is still open.
C26_Witness ==
    /\ Substituted(last)
    /\ last.arg[1].tokens = <<<<"%", "(", "k", ")", "s">>, Positional>>
    /\ last.arg[1].params.kind = "dict"
    /\ last.exc = "ValueError"
    /\ last.sent = <<>>
    /\ conn.status = STATUS_BEGIN

\* C27: with positional parameters, more values than %s placeholders raise
\* TypeError and fewer values raise IndexError, and nothing is sent.
C27_PositionalCountsMustMatch ==
    (/\ Substituted(last)
     /\ WellFormed(last.arg[1].tokens)
     /\ ~Has(last.arg[1].tokens, Named)
     /\ last.arg[1].params.kind = "tuple")
      => LET placeholders == Count(last.arg[1].tokens, {Positional})
             values == Len(last.arg[1].params.vals)
         IN /\ values > placeholders => last.exc = "TypeError" /\ last.sent = <<>>
            /\ values < placeholders => last.exc = "IndexError" /\ last.sent = <<>>

\* What a template made of whole pieces stands for: %% is one %, a
\* placeholder is the literal of its value, text is itself.
RECURSIVE Rendered(_, _, _)
Rendered(tokens, params, n) ==
    IF tokens = <<>> THEN <<>>
    ELSE LET t == Head(tokens)
             piece == IF t = <<"%", "%">> THEN <<"%">>
                      ELSE IF t = Positional THEN _getquoted(params.vals[n])
                      ELSE IF t \in Named THEN _getquoted(params.map[<<t[3]>>])
                      ELSE t
         IN piece \o Rendered(Tail(tokens), params, IF t = Positional THEN n + 1 ELSE n)

\* The parameters are the ones the template asks for.
Matching(tokens, params) ==
    /\ WellFormed(tokens)
    /\ IF params.kind = "tuple"
       THEN ~Has(tokens, Named) /\ Count(tokens, {Positional}) = Len(params.vals)
       ELSE /\ ~Has(tokens, {Positional})
            /\ \A i \in 1 .. Len(tokens) :
                  tokens[i] \in Named => <<tokens[i][3]>> \in DOMAIN params.map

\* C28: substituting parameters (an empty collection too) into a template
\* renders every %% as one %, every placeholder as the literal of its value,
\* and all other text as it is; a literal is not scanned again.
C28_TemplateRendering ==
    (Substituted(last) /\ Matching(last.arg[1].tokens, last.arg[1].params))
      => /\ last.arg[1].combined[1].exc = "none"
         /\ last.arg[1].combined[1].out
               = Rendered(last.arg[1].tokens, last.arg[1].params, 1)
         /\ last.exc = "none"

\* %%%%%s with the str '%s' was rendered as %% and the quoted str.
C28_Witness ==
    /\ Substituted(last)
    /\ last.arg[1].tokens = <<<<"%", "%">>, <<"%", "%">>, Positional>>
    /\ last.arg[1].params = Tuple(<<Pct>>)
    /\ last.arg[1].combined[1].out = <<"%", "%", "'", "%", "s", "'">>
    /\ last.exc = "none"

\* The first type of a value's method resolution order that has an adapter.
Registered(value) ==
    {i \in 1 .. Len(mro(value.type)) : mro(value.type)[i] \in DOMAIN env.adapters}

\* C29: adapt uses the adapter of the most specific registered type of the
\* value: no type before it in the method resolution order is registered.
\* When no type of the order is registered the value's __conform__ gives
\* the adapter, and without __conform__ ProgrammingError is raised.
C29_MostSpecificAdapter ==
    last.op = "adapt" =>
        LET value == last.arg[1]
            order == mro(value.type)
        IN IF Registered(value) # {}
           THEN /\ last.exc = "none"
                /\ \E i \in Registered(value) :
                     /\ \A j \in 1 .. i - 1 : j \notin Registered(value)
                     /\ last.ret = <<env.adapters[order[i]]>>
           ELSE IF value.conform # None
           THEN last.exc = "none" /\ last.ret = <<value.conform[1]>>
           ELSE last.exc = "ProgrammingError"

\* With adapters registered for A and B, an instance of C got B's adapter.
C29_Witness ==
    /\ last.op = "adapt" /\ last.arg[1].type = "C" /\ last.arg[1].conform = None
    /\ "A" \in DOMAIN env.adapters /\ "B" \in DOMAIN env.adapters
    /\ env.adapters["A"] = "a" /\ env.adapters["B"] = "b"
    /\ last.ret = <<"b">>

\* The registries a cursor sees, the nearest first.
Visible(csr) == <<csr, ConnOf(csr), "string_types">>

\* The cursors a registration in the scope is meant for.
CursorsOf(scope) ==
    IF scope = "none" THEN Cursors
    ELSE IF scope \in Conns THEN {k \in Cursors : ConnOf(k) = scope}
    ELSE IF scope \in Cursors THEN {scope}
    ELSE {}

\* C30: the typecaster a cursor chooses for type id T is the registration of
\* the nearest of its own registry, its connection's and the global one that
\* has T, and the UNKNOWN typecaster when none has; registering on a cursor
\* or a connection changes the choice of no cursor outside that scope.
C30_TypecasterShadowing ==
    [][/\ last'.op = "_get_cast" =>
            LET k == last'.arg[1].cursor
                T == last'.arg[1].oid
                has == {i \in 1 .. 3 : T \in DOMAIN env'.casts[Visible(k)[i]]}
            IN IF has = {} THEN last'.ret = <<"UNKNOWN">>
               ELSE \E i \in has :
                      /\ \A j \in has : i <= j
                      /\ last'.ret = <<env'.casts[Visible(k)[i]][T]>>
       /\ last'.op = "register_type" =>
            \A k \in Cursors \ CursorsOf(last'.arg[1].scope), T \in {23, 2950} :
                _get_cast(env'.casts, k, T) = _get_cast(env.casts, k, T)]_vars

\* A cursor chose its own registration for 23 over the one of its
\* connection; the other cursor of the connection chooses the connection's,
\* the cursor of the other connection the global one.
C30_Witness ==
    /\ last.op = "_get_cast" /\ last.arg[1] = [cursor |-> "cur1", oid |-> 23]
    /\ last.ret = <<"MYINT">>
    /\ 23 \in DOMAIN env.casts["cur1"]
    /\ 23 \in DOMAIN env.casts["conn1"] /\ env.casts["conn1"][23] = "PAIR"
    /\ _get_cast(env.casts, "cur1b", 23) = "PAIR"
    /\ _get_cast(env.casts, "cur2", 23) = "INTEGER"

\* What an array decodes to: lists for the arrays, None for a null element,
\* the str or the int for any other element.
RECURSIVE Decoded(_)
Decoded(v) ==
    IF v.t = "null" THEN PyNone
    ELSE IF v.t = "list" THEN PyList([i \in 1 .. Len(v.items) |-> Decoded(v.items[i])])
    ELSE v

\* C31: decoding the text of an array gives nested lists that mirror the
\* braces; an element in quotes keeps its quotes, backslashes, commas and
\* braces, the bare word NULL in any letter case is a null element, and the
\* quoted "NULL" is the string of four characters.
C31_ArrayDecoding ==
    last.op = "parse_array" =>
        /\ last.exc = "none"
        /\ last.ret = <<Decoded(last.arg[1].array)>>

\* A parsable token: digits, an underscore and two base64 texts with an
\* underscore between them, which name the components of an Xid.
Parsable(s) ==
    /\ re_match(s) # None
    /\ decode_base64(re_match(s)[1][2]).exc = "none"
    /\ decode_base64(re_match(s)[1][3]).exc = "none"
    /\ XidValid(int(re_match(s)[1][1]), decode_base64(re_match(s)[1][2]).val,
                decode_base64(re_match(s)[1][3]).val)

\* C32: Xid.from_string of the str() of an Xid has the three components of
\* that Xid; Xid.from_string of a string that is not a parsable token
\* returns, without raising, an Xid that has no format id and whose str() is
\* the string.
C32_XidTokenRoundTrip ==
    LET a == last.arg[1]
    IN /\ last.op = "from_string" /\ a.xid # None =>
            /\ last.exc = "none"
            /\ last.ret[1].format_id = Some(a.xid[1][1])
            /\ last.ret[1].gtrid = a.xid[1][2]
            /\ last.ret[1].bqual = Some(a.xid[1][3])
       /\ last.op = "from_string" /\ ~Parsable(a.s) =>
            /\ last.exc = "none"
            /\ last.ret[1].format_id = None
       /\ last.op = "str" /\ ~Parsable(a.s) =>
            /\ last.exc = "none"
            /\ last.ret[1].format_id = None
            /\ last.ret[2] = a.s

\* The token of (2147483647, 64 letters, "_") came back as its components.
C32_Witness ==
    /\ last.op = "from_string"
    /\ last.arg[1].xid = Some(<<MaxFormatId, [i \in 1 .. MaxXidStr |-> 97], <<Underscore>>>>)
    /\ Newline \in {last.arg[1].s[i] : i \in 1 .. Len(last.arg[1].s)}
    /\ last.ret[1] = Xid(MaxFormatId, [i \in 1 .. MaxXidStr |-> 97], <<Underscore>>)

\* A string with the shape of a token whose second group does not decode
\* came back as the gtrid of an Xid without format id.
C32_WitnessOpaque ==
    /\ last.op = "str"
    /\ last.arg[1].s = <<52, Underscore, 90, Underscore>>
    /\ last.ret[1].format_id = None
    /\ last.ret[2] = last.arg[1].s

\* The level Connection.isolation_level gives for the connection.
CurrentLevel == IF conn.autocommit THEN ISOLATION_LEVEL_AUTOCOMMIT ELSE conn.srv_isolation

\* set_isolation_level with another level inside a transaction, and with a
\* level out of range, on an open connection whose server accepts every
\* command: ROLLBACK is sent, the call returns with status Ready and
\* autocommit on exactly for level 0, and an execute that follows sends BEGIN
\* first exactly when the level is not 0; out of range is ValueError, nothing
\* sent, nothing changed.
LevelChangeRollsBack ==
    /\ (last'.op = "set_isolation_level" /\ ~conn.closed /\ ~last'.failed) =>
         LET level == last'.arg[1] IN
         /\ (level \in 0 .. 4 /\ level # CurrentLevel /\ conn.status = STATUS_BEGIN)
              => /\ last'.exc = "none"
                 /\ \E i \in 1 .. Len(last'.sent) : last'.sent[i] = Cmd("ROLLBACK")
                 /\ conn'.status = STATUS_READY
                 /\ conn'.autocommit = (level = ISOLATION_LEVEL_AUTOCOMMIT)
         /\ level \notin 0 .. 4
              => /\ last'.exc = "ValueError"
                 /\ last'.sent = <<>>
                 /\ conn' = conn
    /\ (/\ last.op = "set_isolation_level" /\ last.exc = "none"
        /\ conn.status = STATUS_READY /\ ~conn.closed
        /\ last'.op = "execute" /\ last'.sent # <<>>) =>
         (last'.sent[1] = Cmd("BEGIN") <=> last.arg[1] # ISOLATION_LEVEL_AUTOCOMMIT)

QueryCompletes ==
    /\ last'.op = "poll"
    /\ conn.status \in {STATUS_READY, STATUS_BEGIN, STATUS_PREPARED}
    /\ conn.async_cursor # None
    /\ conn.async_status \in {ASYNC_READ, ASYNC_DONE}
    /\ pq.healthy /\ pq.inflight /\ pq.busy_left = 0

\* C34: the poll() that finds the outstanding query complete returns Ready
\* or raises the error of the query; the cursor that submitted it holds the
\* final result and its fetch path has run, the connection records no
\* pending cursor, isexecuting() is false and a new execute is accepted.  If
\* that cursor no longer exists the pending results are drained instead.
C34_PollCompletesQuery ==
    [][ /\ QueryCompletes =>
            IF conn.async_cursor = Some("gone")
            THEN ~pq'.inflight
            ELSE /\ ~pq'.inflight
                 /\ \/ last'.exc = "none" /\ last'.ret = Some(POLL_OK)
                    \/ last'.exc # "none" /\ pq.result.st = "FATAL_ERROR"
                 /\ conn.async_cursor = Some("held") =>
                        cur' = _pq_fetch([Frame EXCEPT !.cur.pgres = Some(pq.result)]).cur
                 /\ conn'.async_cursor = None
                 /\ ~isexecuting(conn')
        /\ (/\ last.op = "poll" /\ last.exc = "none" /\ last.ret = Some(POLL_OK)
            /\ conn.status = STATUS_READY
            /\ last'.op = "execute" /\ ~last'.failed)
              => last'.exc = "none" ]_vars

\* A query is on its way on a sound connection and a cursor waits for it.
Outstanding ==
    /\ conn.async /\ conn.status \in {STATUS_READY, STATUS_BEGIN}
    /\ conn.async_cursor # None
    /\ pq.healthy /\ pq.inflight

\* The place of a sub-state in Write -> Read -> Done.
Rank(async_status) ==
    CASE async_status = ASYNC_WRITE -> 1
      [] async_status = ASYNC_READ -> 2
      [] async_status = ASYNC_DONE -> 3

\* A poll() while a query is outstanding: the sub-state does not go back;
\* WriteWanted is returned exactly while the flush leaves output unsent, and
\* the sub-state stays Write; a complete flush moves it to Read and returns
\* ReadWanted; ReadWanted is returned while the library is busy; Ready is
\* returned only when the library is not busy, with the sub-state Done.
PollAdvances ==
    (last'.op = "poll" /\ Outstanding) =>
        /\ Rank(conn'.async_status) >= Rank(conn.async_status)
        /\ last'.ret = Some(POLL_WRITE)
              <=> (conn.async_status = ASYNC_WRITE /\ pq.flush_left > 0)
        /\ last'.ret = Some(POLL_WRITE) => conn'.async_status = ASYNC_WRITE
        /\ (conn.async_status = ASYNC_WRITE /\ pq.flush_left = 0)
              => (conn'.async_status = ASYNC_READ /\ last'.ret = Some(POLL_READ))
        /\ (conn.async_status # ASYNC_WRITE /\ pq.busy_left > 0)
              => (last'.ret = Some(POLL_READ) /\ conn'.async_status = conn.async_status)
        /\ (last'.exc = "none" /\ last'.ret = Some(POLL_OK))
              => (conn.async_status # ASYNC_WRITE /\ pq.busy_left = 0
                  /\ conn'.async_status = ASYNC_DONE)

\* poll() has returned Ready.
ReturnedReady == last.op = "poll" /\ last.exc = "none" /\ last.ret = Some(POLL_OK)

\* C35: while a query is outstanding the sub-state only moves forward
\* Write -> Read -> Done over the calls of poll(), which returns WriteWanted,
\* ReadWanted and Ready as the flush and the busy test of the library say;
\* and as the library flushes and stops being busy, repeated poll()
\* eventually returns Ready.
C35_PollReachesReady ==
    /\ [][PollAdvances]_vars
    /\ Outstanding ~> ReturnedReady

\* C36: PQfinish is called on a handle that is there and drops it, a handle
\* is dropped only by PQfinish and never comes back, so that over any
\* sequence of close(), failed operations and the destructor the handle is
\* finished at most once; a connection that is closed or destroyed has no
\* handle left.
C36_HandleFinishedOnce ==
    /\ []((conn.closed \/ last.op = "__del__") => ~conn.pgconn)
    /\ [][ /\ last'.finished => (conn.pgconn /\ ~conn'.pgconn)
           /\ (conn.pgconn /\ ~conn'.pgconn) => last'.finished
           /\ ~conn.pgconn => ~conn'.pgconn ]_vars

\* C36 witness: the destructor of a connection that close() had closed
\* after a failed operation: it found no handle and finished nothing.
C36_Witness ==
    /\ last.op = "__del__" /\ ~last.finished
    /\ conn.closed /\ ~conn.pgconn
    /\ conn.status = STATUS_BEGIN

\* How many results a cursor holds.
Held(c) == IF c.pgres = None THEN 0 ELSE 1

\* C37: over every call on the cursor the results are accounted for: the
\* one it held and the ones it was handed are the ones released and the one
\* it holds afterwards, so that every result is released once, and before
\* the next one takes its place.
C37_ResultsReleasedOnce ==
    [][ last'.op # "cursor"
            => Held(cur) + last'.got = last'.cleared + Held(cur') ]_vars

\* What a copy_from that reached the server did.
CopyDone == last.op = "copy_from" /\ last.ret # <<>> /\ last.ret[1].ends # <<>>
Copy == last.ret[1]

\* The chunks went out in the order of the stream, all of them unless
\* sending one failed, and PQputCopyEnd was called once.
CopySendsInOrder ==
    CopyDone =>
        /\ Len(Copy.ends) = 1
        /\ Copy.put = SubSeq(Copy.file, 1, Len(Copy.put))
        /\ Copy.error = 0 => Copy.put = Copy.file
        /\ Copy.error # 0 => Len(Copy.put) = Copy.putfail - 1

\* C38: a copy_from that started the COPY sent the chunks of the stream in
\* order, all of them unless sending one failed, and ended the COPY once;
\* when sending a chunk failed or the final result of the COPY reports an
\* error, it raised.
C38_CopyFailuresRaise ==
    CopyDone =>
        /\ CopySendsInOrder
        /\ (Copy.error # 0 \/ \E i \in 1 .. Len(Copy.dropped) : Copy.dropped[i] # "none")
               => last.exc # "none"

\* C39: while autocommit is on the status is neither InTransaction nor
\* Prepared.
C39_AutocommitOutsideTransaction ==
    conn.autocommit => conn.status \notin {STATUS_BEGIN, STATUS_PREPARED}

\* The part of C39 about InTransaction: with autocommit on the status is
\* never InTransaction.
AutocommitNotBegun == conn.autocommit => conn.status # STATUS_BEGIN

\* C40: whenever the no-tuples flag of an unnamed cursor is false, the cursor
\* holds a tuples result with rowcount rows and the row pointer lies between
\* 0 and rowcount.
C40_FetchableHoldsResult ==
    (cur.name = None /\ ~cur.no_tuples)
        => /\ cur.pgres # None
           /\ cur.pgres[1].st = "TUPLES_OK"
           /\ cur.pgres[1].n = cur.rowcount
           /\ 0 <= cur.rownumber /\ cur.rownumber <= cur.rowcount
====
